---- MODULE Spec2Model ----
(***************************************************************************)
(* A model of the termcolor crate (src/src): the ColorSpec value type, the *)
(* two ANSI encoders (ansi::ansi_spec and the Ansi<W> writer), the NoColor *)
(* writer, the Buffer variants, BufferWriter::print and the ColorChoice    *)
(* policy.  Bytes are modelled as their integer values, byte strings as    *)
(* sequences of integers.  The stream write path is the cfg(not(windows))  *)
(* build; the ColorChoice policy is modelled for both builds.              *)
(***************************************************************************)
EXTENDS Integers, Sequences, FiniteSets, TLC

VARIABLES
    \* ---- ColorSpec / encoders (types.rs, ansi.rs, writers.rs Ansi<W>) ----
    cspec,      \* the ColorSpec value being built by setter calls
    sink,       \* the Vec<u8> inside an Ansi<Vec<u8>> writer
    sinkDone,   \* TRUE once set_color(&cspec) ran on the writer
    disp,       \* the Vec<u8> filled by ansi_spec in Display for ColorSpec
    dispDone,   \* TRUE once Display::fmt ran on cspec
    cleared,    \* TRUE while the last call that changed cspec is clear()
    \* ---- BufferWriter::print (writers.rs) ----
    tbuf,       \* tbuf[t]: the bytes of the Buffer thread t is printing
    pc,         \* pc[t]: where thread t stands inside print
    pos,        \* pos[t]: bytes of the current write_all already written
    cur,        \* cur[t]: the number of the print call thread t is in
    lockHolder, \* the thread holding the standard stream's lock, 0 if none
    printed,    \* BufferWriter.printed (AtomicBool)
    separator,  \* BufferWriter.separator: <<>> is None, <<v>> is Some(v)
    device,     \* the bytes that reached the stream, each tagged with the
                \* print call that wrote it and the write_all it belongs to
    calls,      \* history: one record per print call, in call order
    sepLate,    \* history: separator() was called after a print call
    sepCalls,   \* history: the number of separator() calls so far
    \* ---- Buffer (writers.rs) ----
    bufTag,     \* the BufferInner variant: "NoColor" or "Ansi"
    bufData,    \* the Vec<u8> inside the Buffer
    bufOps,     \* history: one record per call on the Buffer, in call order
    \* ---- ColorChoice policy (types.rs, BufferWriter::create) ----
    windows,    \* TRUE in the cfg(windows) build
    envTERM,    \* env::var_os("TERM"): <<>> is None, <<v>> is Some(v)
    envNO_COLOR, \* env::var_os("NO_COLOR"), likewise
    bw,         \* <<>> before BufferWriter::create, then <<the writer>>
    made,       \* history: the variants of the Buffers bw.buffer() returned
    \* ---- StandardStream (writers.rs) ----
    ss,         \* <<>> before StandardStream::stdout, then <<the stream>>
    ssLock,     \* <<>>, or <<variant>> of the live StandardStreamLock
    ssOps,      \* history: one record per call on the stream or its lock
    \* ---- Ansi<W> over a sink whose writes can fail (writers.rs) ----
    fsink,      \* the bytes the sink has taken
    fcalls,     \* history: one record per set_color / set_hyperlink / reset
    \* ---- FromStr for Color and for ColorSpec (types.rs) ----
    pin,        \* the &str handed to from_str
    pout,       \* <<>> before the call, then <<the Result it returned>>
    \* ---- StringWriter and TermString (writers.rs) ----
    swKind,     \* which of the two types the writer is
    swInner,    \* the bytes of the String inside the writer
    swOps       \* history: one record per call on the writer

encVars == <<cspec, sink, sinkDone, disp, dispDone, cleared>>

printVars ==
    <<tbuf, pc, pos, cur, lockHolder, printed, separator, device, calls, sepLate,
      sepCalls>>

bufVars == <<bufTag, bufData, bufOps>>

polVars == <<windows, envTERM, envNO_COLOR, bw, made>>

streamVars == <<ss, ssLock, ssOps>>

failVars == <<fsink, fcalls>>

parseVars == <<pin, pout>>

stringVars == <<swKind, swInner, swOps>>

vars ==
    <<cspec, sink, sinkDone, disp, dispDone, cleared,
      tbuf, pc, pos, cur, lockHolder, printed, separator, device, calls, sepLate,
      sepCalls, bufTag, bufData, bufOps, windows, envTERM, envNO_COLOR, bw,
      made, ss, ssLock, ssOps, fsink, fcalls, pin, pout,
      swKind, swInner, swOps>>

\* The variables each group of actions leaves alone.
notPrintVars == <<encVars, bufVars, polVars, streamVars, failVars, parseVars,
     stringVars>>

notEncVars == <<printVars, bufVars, polVars, streamVars, failVars, parseVars,
     stringVars>>

notBufVars == <<encVars, printVars, polVars, streamVars, failVars, parseVars,
     stringVars>>

notPolVars == <<encVars, printVars, bufVars, streamVars, failVars, parseVars,
     stringVars>>

notStreamVars == <<encVars, printVars, bufVars, failVars, parseVars,
     stringVars>>

notFailVars == <<encVars, printVars, bufVars, polVars, streamVars, parseVars,
     stringVars>>

notParseVars ==
    <<encVars, printVars, bufVars, polVars, streamVars, failVars,
      stringVars>>

notStringVars ==
    <<encVars, printVars, bufVars, polVars, streamVars, failVars, parseVars>>

----------------------------------------------------------------------------
(* Byte strings.                                                           *)

\* "\x1B[" followed by the ASCII digits/semicolons in body and a final 'm'.
Esc(body) == <<27, 91>> \o body \o <<109>>

\* The ASCII byte of one decimal digit.
Digit(d) == 48 + d

\* Mutant of FmtU8: always three digits, zero-padded.
FmtU8_padded(n) ==
    <<Digit(n \div 100), Digit((n \div 10) % 10), Digit(n % 10)>>

\* Display for u8 as used by write!(wtr, "...{n}m"): decimal, no padding.
RECURSIVE FmtU8(_)
FmtU8(n) == IF n < 10 THEN <<Digit(n)>> ELSE FmtU8(n \div 10) \o <<Digit(n % 10)>>

RECURSIVE Flatten(_)
Flatten(chunks) ==
    IF chunks = <<>> THEN <<>> ELSE Head(chunks) \o Flatten(Tail(chunks))

----------------------------------------------------------------------------
(* Color (types.rs).  A color is a tuple: <<name>> for the eight named     *)
(* colors, <<"Ansi256", n>>, <<"Rgb", r, g, b>>; Option::None is <<>>.     *)

NamedColors ==
    {"Black", "Blue", "Green", "Red", "Cyan", "Magenta", "Yellow", "White"}

NoneColor == <<>>

IsNamed(c) == Len(c) = 1

\* ColorSpec::default(): no colors, no flags, reset = true.
DefaultSpec ==
    [fg_color |-> NoneColor, bg_color |-> NoneColor, bold |-> FALSE,
     intense |-> FALSE, underline |-> FALSE, dimmed |-> FALSE,
     italic |-> FALSE, reset |-> TRUE, strikethrough |-> FALSE]

----------------------------------------------------------------------------
(* ansi.rs: the ColorSpec encoder used by Display for ColorSpec.           *)

\* ansi_color(wtr, color, bg): one SGR code; there is no intense parameter.
ansi_color(c, bg) ==
    CASE c[1] = "Black" ->
            IF bg THEN Esc(<<Digit(4), Digit(0)>>) ELSE Esc(<<Digit(3), Digit(0)>>)
      [] c[1] = "Blue" ->
            IF bg THEN Esc(<<Digit(4), Digit(4)>>) ELSE Esc(<<Digit(3), Digit(4)>>)
      [] c[1] = "Green" ->
            IF bg THEN Esc(<<Digit(4), Digit(2)>>) ELSE Esc(<<Digit(3), Digit(2)>>)
      [] c[1] = "Red" ->
            IF bg THEN Esc(<<Digit(4), Digit(1)>>) ELSE Esc(<<Digit(3), Digit(1)>>)
      [] c[1] = "Cyan" ->
            IF bg THEN Esc(<<Digit(4), Digit(6)>>) ELSE Esc(<<Digit(3), Digit(6)>>)
      [] c[1] = "Magenta" ->
            IF bg THEN Esc(<<Digit(4), Digit(5)>>) ELSE Esc(<<Digit(3), Digit(5)>>)
      [] c[1] = "Yellow" ->
            IF bg THEN Esc(<<Digit(4), Digit(3)>>) ELSE Esc(<<Digit(3), Digit(3)>>)
      [] c[1] = "White" ->
            IF bg THEN Esc(<<Digit(4), Digit(7)>>) ELSE Esc(<<Digit(3), Digit(7)>>)
      [] c[1] = "Ansi256" ->
            IF bg THEN Esc(<<Digit(4), Digit(8), 59, Digit(5), 59>> \o FmtU8(c[2]))
                  ELSE Esc(<<Digit(3), Digit(8), 59, Digit(5), 59>> \o FmtU8(c[2]))
      [] c[1] = "Rgb" ->
            IF bg THEN Esc(<<Digit(4), Digit(8), 59, Digit(2), 59>> \o FmtU8(c[2])
                           \o <<59>> \o FmtU8(c[3]) \o <<59>> \o FmtU8(c[4]))
                  ELSE Esc(<<Digit(3), Digit(8), 59, Digit(2), 59>> \o FmtU8(c[2])
                           \o <<59>> \o FmtU8(c[3]) \o <<59>> \o FmtU8(c[4]))

\* Mutant of ansi_spec_writes: dim is written before bold and the trailing
\* bold is written for intense alone.
ansi_spec_writes_reordered(spec) ==
       (IF spec.reset THEN <<Esc(<<Digit(0)>>)>> ELSE <<>>)
    \o (IF spec.dimmed THEN <<Esc(<<Digit(2)>>)>> ELSE <<>>)
    \o (IF spec.bold THEN <<Esc(<<Digit(1)>>)>> ELSE <<>>)
    \o (IF spec.italic THEN <<Esc(<<Digit(3)>>)>> ELSE <<>>)
    \o (IF spec.underline THEN <<Esc(<<Digit(4)>>)>> ELSE <<>>)
    \o (IF spec.strikethrough THEN <<Esc(<<Digit(9)>>)>> ELSE <<>>)
    \o (IF spec.fg_color # NoneColor
            THEN <<ansi_color(spec.fg_color, FALSE)>> ELSE <<>>)
    \o (IF spec.bg_color # NoneColor
            THEN <<ansi_color(spec.bg_color, TRUE)>> ELSE <<>>)
    \o (IF spec.intense THEN <<Esc(<<Digit(1)>>)>> ELSE <<>>)

\* ansi_spec(wtr, spec): the write! calls in source order, as chunks.
ansi_spec_writes(spec) ==
       (IF spec.reset THEN <<Esc(<<Digit(0)>>)>> ELSE <<>>)
    \o (IF spec.bold THEN <<Esc(<<Digit(1)>>)>> ELSE <<>>)
    \o (IF spec.dimmed THEN <<Esc(<<Digit(2)>>)>> ELSE <<>>)
    \o (IF spec.italic THEN <<Esc(<<Digit(3)>>)>> ELSE <<>>)
    \o (IF spec.underline THEN <<Esc(<<Digit(4)>>)>> ELSE <<>>)
    \o (IF spec.strikethrough THEN <<Esc(<<Digit(9)>>)>> ELSE <<>>)
    \o (IF spec.fg_color # NoneColor
            THEN <<ansi_color(spec.fg_color, FALSE)>> ELSE <<>>)
    \o (IF spec.bg_color # NoneColor
            THEN <<ansi_color(spec.bg_color, TRUE)>> ELSE <<>>)
    \o (IF spec.intense /\ spec.fg_color # NoneColor
            THEN <<Esc(<<Digit(1)>>)>> ELSE <<>>)

\* The bytes ansi_spec leaves in a Vec<u8> (whose writes never fail).
ansi_spec(spec) == Flatten(ansi_spec_writes(spec))

----------------------------------------------------------------------------
(* writers.rs: Ansi<W>::write_color and its macros.                        *)

FmtLen == 19
MaxPreLen == 7

\* fmt[idx] = b on the work buffer; an index outside it is a panic.
Put(st, idx, b) ==
    IF idx \in 0..(FmtLen - 1)
        THEN [st EXCEPT !.fmt[idx] = b, !.i = idx,
                        !.hi = IF idx > st.hi THEN idx ELSE st.hi]
        ELSE [st EXCEPT !.i = idx, !.panic = TRUE,
                        !.hi = IF idx > st.hi THEN idx ELSE st.hi]

\* Mutant of WvacCode: the tens digit is written only when it is not zero.
WvacCode_dropInnerZero(st, code) ==
    LET c1 == (code \div 100) % 10
        c2 == (code \div 10) % 10
        c3 == code % 10
        s1 == IF c1 # 0 THEN Put(st, st.i + 1, Digit(c1)) ELSE st
        s2 == IF c2 # 0 THEN Put(s1, s1.i + 1, Digit(c2)) ELSE s1
        s3 == Put(s2, s2.i + 1, Digit(c3))
    IN  Put(s3, s3.i + 1, 59)

\* The body of the $( ... )+ repetition for one $code.
WvacCode(st, code) ==
    LET c1 == (code \div 100) % 10
        c2 == (code \div 10) % 10
        c3 == code % 10
        printedDigit == c1 # 0
        s1 == IF c1 # 0 THEN Put(st, st.i + 1, Digit(c1)) ELSE st
        s2 == IF c2 # 0 \/ printedDigit THEN Put(s1, s1.i + 1, Digit(c2)) ELSE s1
        s3 == Put(s2, s2.i + 1, Digit(c3))
    IN  Put(s3, s3.i + 1, 59)

RECURSIVE WvacCodes(_, _)
WvacCodes(st, codes) ==
    IF codes = <<>> THEN st
    ELSE WvacCodes(WvacCode(st, Head(codes)), Tail(codes))

\* write_var_ansi_code!(pre, codes...): the final work-buffer state.
write_var_ansi_code(pre, codes) ==
    LET pre_len == Len(pre)
        st0 == [fmt |-> [j \in 0..(FmtLen - 1) |->
                            IF j < pre_len THEN pre[j + 1] ELSE 0],
                i |-> pre_len - 1,
                hi |-> pre_len - 1,
                panic |-> ~(pre_len <= MaxPreLen)]
        st1 == WvacCodes(st0, codes)
    IN  Put(st1, st1.i, 109)

\* &fmt[0..i+1], the slice handed to write_all.
WvacBytes(st) == [k \in 1..(st.i + 1) |-> st.fmt[k - 1]]

\* Mutant of write_custom: the Ansi256 prefixes are 8 bytes long.
write_custom_longPrefix(fg, c) ==
    IF c[1] = "Ansi256"
        THEN IF fg THEN write_var_ansi_code(<<27, 91, 48, 51, 56, 59, 53, 59>>, <<c[2]>>)
                   ELSE write_var_ansi_code(<<27, 91, 48, 52, 56, 59, 53, 59>>, <<c[2]>>)
        ELSE IF fg THEN write_var_ansi_code(<<27, 91, 51, 56, 59, 50, 59>>,
                                            <<c[2], c[3], c[4]>>)
                   ELSE write_var_ansi_code(<<27, 91, 52, 56, 59, 50, 59>>,
                                            <<c[2], c[3], c[4]>>)

\* write_custom!: the work buffer for an Ansi256 or Rgb color.
write_custom(fg, c) ==
    IF c[1] = "Ansi256"
        THEN IF fg THEN write_var_ansi_code(<<27, 91, 51, 56, 59, 53, 59>>, <<c[2]>>)
                   ELSE write_var_ansi_code(<<27, 91, 52, 56, 59, 53, 59>>, <<c[2]>>)
        ELSE IF fg THEN write_var_ansi_code(<<27, 91, 51, 56, 59, 50, 59>>,
                                            <<c[2], c[3], c[4]>>)
                   ELSE write_var_ansi_code(<<27, 91, 52, 56, 59, 50, 59>>,
                                            <<c[2], c[3], c[4]>>)

\* Mutant of write_intense: the background takes the foreground prefix.
write_intense_fgOnly(fg, clr) == <<27, 91, 51, 56, 59, 53, 59>> \o clr \o <<109>>

\* write_intense!($clr)
write_intense(fg, clr) ==
    IF fg THEN <<27, 91, 51, 56, 59, 53, 59>> \o clr \o <<109>>
          ELSE <<27, 91, 52, 56, 59, 53, 59>> \o clr \o <<109>>

\* write_normal!($clr)
write_normal(fg, clr) ==
    IF fg THEN <<27, 91, 51>> \o clr \o <<109>>
          ELSE <<27, 91, 52>> \o clr \o <<109>>

\* Ansi::write_color(fg, c, intense): the bytes of its single write_all.
write_color(fg, c, intense) ==
    IF intense
    THEN CASE c[1] = "Black" -> write_intense(fg, <<Digit(8)>>)
           [] c[1] = "Blue" -> write_intense(fg, <<Digit(1), Digit(2)>>)
           [] c[1] = "Green" -> write_intense(fg, <<Digit(1), Digit(0)>>)
           [] c[1] = "Red" -> write_intense(fg, <<Digit(9)>>)
           [] c[1] = "Cyan" -> write_intense(fg, <<Digit(1), Digit(4)>>)
           [] c[1] = "Magenta" -> write_intense(fg, <<Digit(1), Digit(3)>>)
           [] c[1] = "Yellow" -> write_intense(fg, <<Digit(1), Digit(1)>>)
           [] c[1] = "White" -> write_intense(fg, <<Digit(1), Digit(5)>>)
           [] c[1] = "Ansi256" -> WvacBytes(write_custom(fg, c))
           [] c[1] = "Rgb" -> WvacBytes(write_custom(fg, c))
    ELSE CASE c[1] = "Black" -> write_normal(fg, <<Digit(0)>>)
           [] c[1] = "Blue" -> write_normal(fg, <<Digit(4)>>)
           [] c[1] = "Green" -> write_normal(fg, <<Digit(2)>>)
           [] c[1] = "Red" -> write_normal(fg, <<Digit(1)>>)
           [] c[1] = "Cyan" -> write_normal(fg, <<Digit(6)>>)
           [] c[1] = "Magenta" -> write_normal(fg, <<Digit(5)>>)
           [] c[1] = "Yellow" -> write_normal(fg, <<Digit(3)>>)
           [] c[1] = "White" -> write_normal(fg, <<Digit(7)>>)
           [] c[1] = "Ansi256" -> WvacBytes(write_custom(fg, c))
           [] c[1] = "Rgb" -> WvacBytes(write_custom(fg, c))

\* Ansi::reset: write_str("\x1B[0m").
AnsiResetWrites == <<Esc(<<Digit(0)>>)>>

\* Ansi::set_color(spec): its write_all calls in source order, as chunks.
AnsiSetColorWrites(spec) ==
       (IF spec.reset THEN AnsiResetWrites ELSE <<>>)
    \o (IF spec.bold THEN <<Esc(<<Digit(1)>>)>> ELSE <<>>)
    \o (IF spec.dimmed THEN <<Esc(<<Digit(2)>>)>> ELSE <<>>)
    \o (IF spec.italic THEN <<Esc(<<Digit(3)>>)>> ELSE <<>>)
    \o (IF spec.underline THEN <<Esc(<<Digit(4)>>)>> ELSE <<>>)
    \o (IF spec.strikethrough THEN <<Esc(<<Digit(9)>>)>> ELSE <<>>)
    \o (IF spec.fg_color # NoneColor
            THEN <<write_color(TRUE, spec.fg_color, spec.intense)>> ELSE <<>>)
    \o (IF spec.bg_color # NoneColor
            THEN <<write_color(FALSE, spec.bg_color, spec.intense)>> ELSE <<>>)

\* The bytes Ansi<Vec<u8>>::set_color appends (Vec writes never fail).
AnsiSetColor(spec) == Flatten(AnsiSetColorWrites(spec))

----------------------------------------------------------------------------
(* BufferWriter (writers.rs): threads print their own Buffers through one  *)
(* shared BufferWriter.                                                    *)

NumThreads == 2
MaxPrints == 2
MaxBufLen == 2
MaxFails == 1
MaxSepCalls == 1

Threads == 1..NumThreads

\* The contents of the buffers handed to print: the empty buffer and
\* "ab..." of MaxBufLen bytes.
BufContents == {<<>>, [j \in 1..MaxBufLen |-> 96 + j]}

\* The values separator() is called with: None, Some(""), Some("-").
SepChoices == {<<>>, <<<<>>>>, <<<<45>>>>}

\* BufferWriter::create: printed = false, separator = None.
InitPrintVars ==
    /\ tbuf = [t \in Threads |-> <<>>]
    /\ pc = [t \in Threads |-> "idle"]
    /\ pos = [t \in Threads |-> 0]
    /\ cur = [t \in Threads |-> 0]
    /\ lockHolder = 0
    /\ printed = FALSE
    /\ separator = <<>>
    /\ device = <<>>
    /\ calls = <<>>
    /\ sepLate = FALSE
    /\ sepCalls = 0

\* The print variables in the specifications that do not print.
PrintUnused == InitPrintVars

\* The encoder variables in the specifications that do not encode.
EncUnused ==
    /\ cspec = DefaultSpec
    /\ sink = <<>>
    /\ sinkDone = FALSE
    /\ disp = <<>>
    /\ dispDone = FALSE
    /\ cleared = FALSE

\* The Buffer variables in the specifications without a Buffer.
BufUnused ==
    /\ bufTag = "NoColor"
    /\ bufData = <<>>
    /\ bufOps = <<>>

\* The policy variables in the specifications that construct no writer.
PolUnused ==
    /\ windows = FALSE
    /\ envTERM = <<>>
    /\ envNO_COLOR = <<>>
    /\ bw = <<>>
    /\ made = <<>>

\* The stream, failing-sink, parser and string-writer variables in the
\* specifications that use none of them.
StreamUnused ==
    /\ ss = <<>>
    /\ ssLock = <<>>
    /\ ssOps = <<>>
    /\ fsink = <<>>
    /\ fcalls = <<>>
    /\ pin = ""
    /\ pout = <<>>
    /\ swKind = ""
    /\ swInner = <<>>
    /\ swOps = <<>>

\* Mutant of is_empty: the early return is never taken.
is_empty_never(buf) == FALSE

\* Buffer::is_empty / Buffer::len
is_empty(buf) == Len(buf) = 0

\* Mutant of CanLock: the lock excludes nobody.
CanLock_noMutex(t) == TRUE

\* io::Stdout::lock() / io::Stderr::lock() return once no other thread
\* holds the stream's mutex.
CanLock(t) == lockHolder = 0

\* Mutant of NeedsSeparator: the printed flag is not consulted.
NeedsSeparator_noFlag == separator # <<>>

\* `if let Some(ref sep) = self.separator && self.printed.load(Relaxed)`
NeedsSeparator == separator # <<>> /\ printed

\* The slice the write_all of phase ph of thread t writes.
WriteTarget(t, ph) ==
    CASE ph = "sep" -> separator[1]
      [] ph = "nl" -> <<10>>
      [] ph = "buf" -> tbuf[t]

\* The statement control reaches when it arrives at the write_all of phase
\* ph: a write_all of an empty slice returns Ok(()) without a write.
RECURSIVE Enter(_, _)
Enter(t, ph) ==
    IF ph = "store" THEN ph
    ELSE IF WriteTarget(t, ph) # <<>> THEN ph
    ELSE Enter(t, CASE ph = "sep" -> "nl" [] ph = "nl" -> "buf" [] ph = "buf" -> "store")

\* The statement reached once the write_all of phase ph returned Ok(()).
AfterWrite(t, ph) ==
    Enter(t, CASE ph = "sep" -> "nl" [] ph = "nl" -> "buf" [] ph = "buf" -> "store")

\* The statement reached after the separator test of lines 605-607.
AfterSepTest(t) == IF NeedsSeparator THEN Enter(t, "sep") ELSE Enter(t, "buf")

Writing(t) == pc[t] \in {"sep", "nl", "buf"}

\* BufferWriter::separator(&mut self, sep): the exclusive borrow rules out
\* a print call in flight.
Separator(sep) ==
    /\ \A t \in Threads : pc[t] = "idle"
    /\ sepCalls < MaxSepCalls
    /\ separator' = sep
    /\ sepLate' = (sepLate \/ calls # <<>>)
    /\ sepCalls' = sepCalls + 1
    /\ UNCHANGED <<tbuf, pc, pos, cur, lockHolder, printed, device, calls>>
    /\ UNCHANGED notPrintVars

\* print(&self, buf), lines 600-603, called by thread t with its buffer:
\* an empty buffer returns Ok(()) at once.
print(t, buf) ==
    /\ pc[t] = "idle"
    /\ Len(calls) < MaxPrints
    /\ calls' = Append(calls,
                  [thread |-> t, content |-> buf, sep |-> <<>>,
                   result |-> IF is_empty(buf) THEN "Ok" ELSE "running"])
    /\ IF is_empty(buf)
          THEN UNCHANGED <<tbuf, pc, cur>>
          ELSE /\ tbuf' = [tbuf EXCEPT ![t] = buf]
               /\ pc' = [pc EXCEPT ![t] = "lock"]
               /\ cur' = [cur EXCEPT ![t] = Len(calls) + 1]
    /\ UNCHANGED <<pos, lockHolder, printed, separator, device, sepLate, sepCalls>>
    /\ UNCHANGED notPrintVars

\* lines 604-607: self.stream.get_ref().lock(), then the separator test.
Lock(t) ==
    /\ pc[t] = "lock"
    /\ CanLock(t)
    /\ lockHolder' = t
    /\ pc' = [pc EXCEPT ![t] = AfterSepTest(t)]
    /\ pos' = [pos EXCEPT ![t] = 0]
    /\ calls' = [calls EXCEPT ![cur[t]].sep =
                    IF NeedsSeparator THEN separator ELSE <<>>]
    /\ UNCHANGED <<tbuf, cur, printed, separator, device, sepLate, sepCalls>>
    /\ UNCHANGED notPrintVars

\* One successful write of the loop inside write_all: k >= 1 bytes of what
\* remains reach the stream; write_all returns Ok(()) when none remain.
WriteSome(t) ==
    /\ Writing(t)
    /\ \E k \in 1..(Len(WriteTarget(t, pc[t])) - pos[t]) :
          /\ device' = device \o
                [j \in 1..k |-> [b |-> WriteTarget(t, pc[t])[pos[t] + j],
                                 call |-> cur[t], part |-> pc[t]]]
          /\ IF pos[t] + k = Len(WriteTarget(t, pc[t]))
                THEN /\ pc' = [pc EXCEPT ![t] = AfterWrite(t, pc[t])]
                     /\ pos' = [pos EXCEPT ![t] = 0]
                ELSE /\ pos' = [pos EXCEPT ![t] = pos[t] + k]
                     /\ UNCHANGED pc
    /\ UNCHANGED <<tbuf, cur, lockHolder, printed, separator, calls, sepLate, sepCalls>>
    /\ UNCHANGED notPrintVars

\* Mutant of WriteFail: the error return leaves the stream locked.
WriteFail_keepsLock(t) ==
    /\ Writing(t)
    /\ Cardinality({k \in 1..Len(calls) : calls[k].result = "Err"}) < MaxFails
    /\ pc' = [pc EXCEPT ![t] = "idle"]
    /\ pos' = [pos EXCEPT ![t] = 0]
    /\ tbuf' = [tbuf EXCEPT ![t] = <<>>]
    /\ calls' = [calls EXCEPT ![cur[t]].result = "Err"]
    /\ cur' = [cur EXCEPT ![t] = 0]
    /\ UNCHANGED <<lockHolder, printed, separator, device, sepLate, sepCalls>>
    /\ UNCHANGED notPrintVars

\* A write of the loop fails: `?` returns the error, the lock guard drops.
WriteFail(t) ==
    /\ Writing(t)
    /\ Cardinality({k \in 1..Len(calls) : calls[k].result = "Err"}) < MaxFails
    /\ pc' = [pc EXCEPT ![t] = "idle"]
    /\ pos' = [pos EXCEPT ![t] = 0]
    /\ tbuf' = [tbuf EXCEPT ![t] = <<>>]
    /\ lockHolder' = IF lockHolder = t THEN 0 ELSE lockHolder
    /\ calls' = [calls EXCEPT ![cur[t]].result = "Err"]
    /\ cur' = [cur EXCEPT ![t] = 0]
    /\ UNCHANGED <<printed, separator, device, sepLate, sepCalls>>
    /\ UNCHANGED notPrintVars

\* Mutant of StoreReturn: the call returns Ok without the store.
StoreReturn_noStore(t) ==
    /\ pc[t] = "store"
    /\ pc' = [pc EXCEPT ![t] = "idle"]
    /\ tbuf' = [tbuf EXCEPT ![t] = <<>>]
    /\ lockHolder' = IF lockHolder = t THEN 0 ELSE lockHolder
    /\ calls' = [calls EXCEPT ![cur[t]].result = "Ok"]
    /\ cur' = [cur EXCEPT ![t] = 0]
    /\ UNCHANGED <<pos, printed, separator, device, sepLate, sepCalls>>
    /\ UNCHANGED notPrintVars

\* lines 615-616: self.printed.store(true, Relaxed); Ok(()); the lock
\* guard inside `stream` drops.
StoreReturn(t) ==
    /\ pc[t] = "store"
    /\ printed' = TRUE
    /\ pc' = [pc EXCEPT ![t] = "idle"]
    /\ tbuf' = [tbuf EXCEPT ![t] = <<>>]
    /\ lockHolder' = IF lockHolder = t THEN 0 ELSE lockHolder
    /\ calls' = [calls EXCEPT ![cur[t]].result = "Ok"]
    /\ cur' = [cur EXCEPT ![t] = 0]
    /\ UNCHANGED <<pos, separator, device, sepLate, sepCalls>>
    /\ UNCHANGED notPrintVars

Init ==
    /\ InitPrintVars
    /\ EncUnused
    /\ BufUnused
    /\ PolUnused
    /\ StreamUnused

Next ==
    \/ \E sep \in SepChoices : Separator(sep)
    \/ \E t \in Threads, buf \in BufContents : print(t, buf)
    \/ \E t \in Threads : Lock(t)
    \/ \E t \in Threads : WriteSome(t)
    \/ \E t \in Threads : WriteFail(t)
    \/ \E t \in Threads : StoreReturn(t)

Spec == Init /\ [][Next]_vars

----------------------------------------------------------------------------
(* The ColorSpec setters (types.rs) and the two encoders applied to the    *)
(* spec they built.  A spec is built by any sequence of setter calls, then *)
(* formatted with Display and/or applied to a fresh Ansi<Vec<u8>>.         *)

\* The colors the setters are called with.
EncColors ==
    {<<n>> : n \in NamedColors}
        \cup {<<"Ansi256", n>> : n \in {0, 10, 255}}
        \cup {<<"Rgb", 0, 0, 0>>, <<"Rgb", 1, 20, 255>>}

InitEnc ==
    /\ cspec = DefaultSpec
    /\ sink = <<>>
    /\ sinkDone = FALSE
    /\ disp = <<>>
    /\ dispDone = FALSE
    /\ cleared = FALSE
    /\ PrintUnused
    /\ BufUnused
    /\ PolUnused
    /\ StreamUnused

Building == ~sinkDone /\ ~dispDone

set_fg(color) ==
    /\ Building
    /\ cspec' = [cspec EXCEPT !.fg_color = color]
    /\ cleared' = FALSE
    /\ UNCHANGED <<sink, sinkDone, disp, dispDone>>
    /\ UNCHANGED notEncVars

set_bg(color) ==
    /\ Building
    /\ cspec' = [cspec EXCEPT !.bg_color = color]
    /\ cleared' = FALSE
    /\ UNCHANGED <<sink, sinkDone, disp, dispDone>>
    /\ UNCHANGED notEncVars

set_bold(yes) ==
    /\ Building
    /\ cspec' = [cspec EXCEPT !.bold = yes]
    /\ cleared' = FALSE
    /\ UNCHANGED <<sink, sinkDone, disp, dispDone>>
    /\ UNCHANGED notEncVars

set_dimmed(yes) ==
    /\ Building
    /\ cspec' = [cspec EXCEPT !.dimmed = yes]
    /\ cleared' = FALSE
    /\ UNCHANGED <<sink, sinkDone, disp, dispDone>>
    /\ UNCHANGED notEncVars

set_italic(yes) ==
    /\ Building
    /\ cspec' = [cspec EXCEPT !.italic = yes]
    /\ cleared' = FALSE
    /\ UNCHANGED <<sink, sinkDone, disp, dispDone>>
    /\ UNCHANGED notEncVars

set_underline(yes) ==
    /\ Building
    /\ cspec' = [cspec EXCEPT !.underline = yes]
    /\ cleared' = FALSE
    /\ UNCHANGED <<sink, sinkDone, disp, dispDone>>
    /\ UNCHANGED notEncVars

set_strikethrough(yes) ==
    /\ Building
    /\ cspec' = [cspec EXCEPT !.strikethrough = yes]
    /\ cleared' = FALSE
    /\ UNCHANGED <<sink, sinkDone, disp, dispDone>>
    /\ UNCHANGED notEncVars

set_reset(yes) ==
    /\ Building
    /\ cspec' = [cspec EXCEPT !.reset = yes]
    /\ cleared' = FALSE
    /\ UNCHANGED <<sink, sinkDone, disp, dispDone>>
    /\ UNCHANGED notEncVars

set_intense(yes) ==
    /\ Building
    /\ cspec' = [cspec EXCEPT !.intense = yes]
    /\ cleared' = FALSE
    /\ UNCHANGED <<sink, sinkDone, disp, dispDone>>
    /\ UNCHANGED notEncVars

\* ColorSpec::is_none
is_none(spec) ==
    /\ spec.fg_color = NoneColor
    /\ spec.bg_color = NoneColor
    /\ ~spec.bold
    /\ ~spec.underline
    /\ ~spec.dimmed
    /\ ~spec.italic
    /\ ~spec.intense
    /\ ~spec.strikethrough

\* Mutant of ColorSpec_clear: italic is left as it is.
ColorSpec_clear_keepsItalic(spec) ==
    [spec EXCEPT !.fg_color = NoneColor, !.bg_color = NoneColor,
                 !.bold = FALSE, !.underline = FALSE, !.intense = FALSE,
                 !.dimmed = FALSE, !.strikethrough = FALSE]

\* ColorSpec::clear: the assignments of its body; reset is not among them.
ColorSpec_clear(spec) ==
    [spec EXCEPT !.fg_color = NoneColor, !.bg_color = NoneColor,
                 !.bold = FALSE, !.underline = FALSE, !.intense = FALSE,
                 !.dimmed = FALSE, !.italic = FALSE, !.strikethrough = FALSE]

\* cspec.clear()
clear ==
    /\ Building
    /\ cspec' = ColorSpec_clear(cspec)
    /\ cleared' = TRUE
    /\ UNCHANGED <<sink, sinkDone, disp, dispDone>>
    /\ UNCHANGED notEncVars

\* impl Display for ColorSpec: buf = Vec::new(); ansi_spec(&mut buf, self).
DisplayFmt ==
    /\ ~dispDone
    /\ disp' = ansi_spec(cspec)
    /\ dispDone' = TRUE
    /\ UNCHANGED <<cspec, sink, sinkDone, cleared>>
    /\ UNCHANGED notEncVars

\* Ansi<Vec<u8>>::set_color(&cspec) on a freshly created writer.
SetColorFresh ==
    /\ ~sinkDone
    /\ sink' = sink \o AnsiSetColor(cspec)
    /\ sinkDone' = TRUE
    /\ UNCHANGED <<cspec, disp, dispDone, cleared>>
    /\ UNCHANGED notEncVars

\* ColorSpec::new() and a new writer: start over.
NewSpec ==
    /\ sinkDone \/ dispDone
    /\ cspec' = DefaultSpec
    /\ sink' = <<>>
    /\ sinkDone' = FALSE
    /\ disp' = <<>>
    /\ dispDone' = FALSE
    /\ cleared' = FALSE
    /\ UNCHANGED notEncVars

NextEnc ==
    \/ \E c \in EncColors \cup {NoneColor} : set_fg(c)
    \/ \E c \in EncColors \cup {NoneColor} : set_bg(c)
    \/ \E yes \in BOOLEAN : set_bold(yes)
    \/ \E yes \in BOOLEAN : set_dimmed(yes)
    \/ \E yes \in BOOLEAN : set_italic(yes)
    \/ \E yes \in BOOLEAN : set_underline(yes)
    \/ \E yes \in BOOLEAN : set_strikethrough(yes)
    \/ \E yes \in BOOLEAN : set_reset(yes)
    \/ \E yes \in BOOLEAN : set_intense(yes)
    \/ clear
    \/ DisplayFmt
    \/ SetColorFresh
    \/ NewSpec

SpecEnc == InitEnc /\ [][NextEnc]_vars

----------------------------------------------------------------------------
(* One color through Ansi::set_color: the spec has reset = false and only  *)
(* that color (as foreground or as background) and possibly intense set.   *)

\* The component values next to the one that ranges over all of 0..255.
RgbEdge == {0, 255}

ColorInputs ==
    {<<n>> : n \in NamedColors}
        \cup {<<"Ansi256", n>> : n \in 0..255}
        \cup {<<"Rgb", n, a, b>> : n \in 0..255, a \in RgbEdge, b \in RgbEdge}
        \cup {<<"Rgb", a, n, b>> : n \in 0..255, a \in RgbEdge, b \in RgbEdge}
        \cup {<<"Rgb", a, b, n>> : n \in 0..255, a \in RgbEdge, b \in RgbEdge}

\* ColorSpec::new().set_reset(false).set_fg/set_bg(Some(c)).set_intense(i)
OneColorSpec(c, fg, intense) ==
    IF fg THEN [DefaultSpec EXCEPT !.reset = FALSE, !.fg_color = c,
                                   !.intense = intense]
          ELSE [DefaultSpec EXCEPT !.reset = FALSE, !.bg_color = c,
                                   !.intense = intense]

InitColor ==
    /\ cspec \in {OneColorSpec(c, fg, i) :
                    c \in ColorInputs, fg \in BOOLEAN, i \in BOOLEAN}
    /\ sink = <<>>
    /\ sinkDone = FALSE
    /\ disp = <<>>
    /\ dispDone = FALSE
    /\ cleared = FALSE
    /\ PrintUnused
    /\ BufUnused
    /\ PolUnused
    /\ StreamUnused

NextColor ==
    \/ SetColorFresh
    \/ DisplayFmt

SpecColor == InitColor /\ [][NextColor]_vars

----------------------------------------------------------------------------
(* Buffer (writers.rs): a Vec<u8> behind the NoColor or the Ansi writer.   *)
(* The calls io::Write::write, set_color, set_hyperlink and reset arrive   *)
(* in any order with any arguments.  A writer operation is modelled by the *)
(* record of the Vec's new contents and the value the call returns.        *)

MaxOps == 5

\* The byte slices passed to write: empty, "hi", and an ESC [ pair.
BufPayloads == {<<>>, <<104, 105>>, <<27, 91>>}

\* The specs passed to set_color.
BufSpecs == {DefaultSpec, [DefaultSpec EXCEPT !.fg_color = <<"Green">>, !.bold = TRUE]}

\* The HyperlinkSpecs passed to set_hyperlink: close() and open(b"u").
BufLinks == {<<>>, <<<<117>>>>}

\* impl io::Write for Vec<u8>: the whole slice is appended.
VecWrite(data, buf) == [data |-> data \o buf, ret |-> <<"Ok", Len(buf)>>]

\* NoColor::write: self.0.write(buf)
NoColorWrite(data, buf) == VecWrite(data, buf)

\* NoColor::set_color: Ok(())
NoColorSetColor(data, spec) == [data |-> data, ret |-> <<"Ok">>]

\* NoColor::set_hyperlink: Ok(())
NoColorSetHyperlink(data, link) == [data |-> data, ret |-> <<"Ok">>]

\* Mutant of NoColorReset: the reset sequence of the Ansi writer is written.
NoColorReset_writes(data) == [data |-> data \o Esc(<<Digit(0)>>), ret |-> <<"Ok">>]

\* NoColor::reset: Ok(())
NoColorReset(data) == [data |-> data, ret |-> <<"Ok">>]

\* Ansi::write: self.0.write(buf)
AnsiWrite(data, buf) == VecWrite(data, buf)

\* Ansi::set_color on a Vec: every write_all succeeds.
AnsiSetColorOp(data, spec) == [data |-> data \o AnsiSetColor(spec), ret |-> <<"Ok">>]

\* Ansi::set_hyperlink: ESC ] 8 ; ; then the uri if any, then ESC \.
AnsiSetHyperlink(data, link) ==
    [data |-> data \o <<27, 93, 56, 59, 59>>
                   \o (IF link # <<>> THEN link[1] ELSE <<>>)
                   \o <<27, 92>>,
     ret |-> <<"Ok">>]

\* Ansi::reset: ESC [ 0 m.
AnsiReset(data) == [data |-> data \o Flatten(AnsiResetWrites), ret |-> <<"Ok">>]

\* Buffer::no_color() / Buffer::ansi()
InitBuf ==
    /\ bufTag \in {"NoColor", "Ansi"}
    /\ bufData = <<>>
    /\ bufOps = <<>>
    /\ EncUnused
    /\ PrintUnused
    /\ PolUnused
    /\ StreamUnused

\* WriteColor for Buffer: supports_color
BufferSupportsColor(tag) ==
    CASE tag = "NoColor" -> FALSE
      [] tag = "Ansi" -> TRUE

\* WriteColor for Buffer: supports_hyperlinks
BufferSupportsHyperlinks(tag) ==
    CASE tag = "NoColor" -> FALSE
      [] tag = "Ansi" -> TRUE

\* The Buffer call `op` with argument `arg` had the outcome r; the variant
\* inside the Buffer is borrowed and written to in place.  The history
\* keeps what supports_color() and supports_hyperlinks() answer afterwards.
BufCall(op, arg, r) ==
    /\ Len(bufOps) < MaxOps
    /\ bufData' = r.data
    /\ bufOps' = Append(bufOps,
                    [op |-> op, arg |-> arg, ret |-> r.ret,
                     supports_color |-> BufferSupportsColor(bufTag),
                     supports_hyperlinks |-> BufferSupportsHyperlinks(bufTag)])
    /\ UNCHANGED bufTag
    /\ UNCHANGED notBufVars

\* impl io::Write for Buffer: write
BufWrite(buf) ==
    BufCall("write", buf,
            IF bufTag = "NoColor" THEN NoColorWrite(bufData, buf)
                                  ELSE AnsiWrite(bufData, buf))

\* impl WriteColor for Buffer: set_color
BufSetColor(spec) ==
    BufCall("set_color", spec,
            IF bufTag = "NoColor" THEN NoColorSetColor(bufData, spec)
                                  ELSE AnsiSetColorOp(bufData, spec))

\* impl WriteColor for Buffer: set_hyperlink
BufSetHyperlink(link) ==
    BufCall("set_hyperlink", link,
            IF bufTag = "NoColor" THEN NoColorSetHyperlink(bufData, link)
                                  ELSE AnsiSetHyperlink(bufData, link))

\* impl WriteColor for Buffer: reset
BufReset ==
    BufCall("reset", <<>>,
            IF bufTag = "NoColor" THEN NoColorReset(bufData)
                                  ELSE AnsiReset(bufData))

\* Vec<u8>::flush behind NoColor::flush / Ansi::flush: Ok(())
VecFlush(data) == [data |-> data, ret |-> <<"Ok">>]

\* impl io::Write for Buffer: flush
BufFlush == BufCall("flush", <<>>, VecFlush(bufData))

\* Mutant of BufferClear: the Buffer is replaced by a new no-color one.
BufferClear_fresh(tag, data) == [tag |-> "NoColor", data |-> <<>>]

\* Buffer::clear: the Vec inside the variant is cleared.
BufferClear(tag, data) ==
    CASE tag = "NoColor" -> [tag |-> "NoColor", data |-> <<>>]
      [] tag = "Ansi" -> [tag |-> "Ansi", data |-> <<>>]

\* buf.clear()
BufClear ==
    /\ Len(bufOps) < MaxOps
    /\ bufTag' = BufferClear(bufTag, bufData).tag
    /\ bufData' = BufferClear(bufTag, bufData).data
    /\ bufOps' = Append(bufOps,
                    [op |-> "clear", arg |-> <<>>, ret |-> <<"Ok">>,
                     supports_color |-> BufferSupportsColor(bufTag'),
                     supports_hyperlinks |-> BufferSupportsHyperlinks(bufTag')])
    /\ UNCHANGED notBufVars

NextBuf ==
    \/ \E buf \in BufPayloads : BufWrite(buf)
    \/ \E spec \in BufSpecs : BufSetColor(spec)
    \/ \E link \in BufLinks : BufSetHyperlink(link)
    \/ BufReset

SpecBuf == InitBuf /\ [][NextBuf]_vars

----------------------------------------------------------------------------
(* ColorChoice (types.rs) and BufferWriter::create (writers.rs): whether   *)
(* color is attempted, from the choice and the process environment at the  *)
(* time of construction.  Both builds are modelled; `windows` selects the  *)
(* cfg(windows) definitions.                                               *)

ColorChoices == {"Always", "AlwaysAnsi", "Auto", "Never"}

\* The values TERM and NO_COLOR take when they are set.
TermValues == {"dumb", "DUMB", "xterm", "cygwin", ""}

NoColorValues == {"", "0", "1"}

\* Mutant of env_allows_color_unix: an empty NO_COLOR does not count as set.
env_allows_color_unix_nonEmpty ==
    IF envTERM = <<>> THEN FALSE
    ELSE IF envTERM[1] = "dumb" THEN FALSE
    ELSE IF envNO_COLOR # <<>> /\ envNO_COLOR[1] # "" THEN FALSE
    ELSE TRUE

\* #[cfg(not(windows))] env_allows_color
env_allows_color_unix ==
    IF envTERM = <<>> THEN FALSE
    ELSE IF envTERM[1] = "dumb" THEN FALSE
    ELSE IF envNO_COLOR # <<>> THEN FALSE
    ELSE TRUE

\* #[cfg(windows)] env_allows_color
env_allows_color_windows ==
    IF envTERM # <<>> /\ envTERM[1] = "dumb" THEN FALSE
    ELSE IF envNO_COLOR # <<>> THEN FALSE
    ELSE TRUE

env_allows_color ==
    IF windows THEN env_allows_color_windows ELSE env_allows_color_unix

\* ColorChoice::should_attempt_color
should_attempt_color(choice) ==
    CASE choice = "Always" -> TRUE
      [] choice = "AlwaysAnsi" -> TRUE
      [] choice = "Never" -> FALSE
      [] choice = "Auto" -> env_allows_color

\* #[cfg(windows)] ColorChoice::should_force_ansi
should_force_ansi(choice) ==
    CASE choice = "Always" -> FALSE
      [] choice = "AlwaysAnsi" -> TRUE
      [] choice = "Never" -> FALSE
      [] choice = "Auto" ->
            IF envTERM # <<>>
                THEN envTERM[1] # "dumb" /\ envTERM[1] # "cygwin"
                ELSE FALSE

\* The use_color field BufferWriter::create computes; vt is the outcome of
\* Console::stdout() and set_virtual_terminal_processing(true) together.
use_color(choice, vt) ==
    IF windows
        THEN LET enabled_virtual ==
                    IF should_attempt_color(choice) THEN vt ELSE FALSE
             IN  should_attempt_color(choice)
                    /\ (enabled_virtual \/ should_force_ansi(choice))
        ELSE should_attempt_color(choice)

InitPolicy ==
    /\ windows \in BOOLEAN
    /\ envTERM \in {<<>>} \cup {<<v>> : v \in TermValues}
    /\ envNO_COLOR \in {<<>>} \cup {<<v>> : v \in NoColorValues}
    /\ bw = <<>>
    /\ made = <<>>
    /\ EncUnused
    /\ PrintUnused
    /\ BufUnused
    /\ StreamUnused

\* The process sets or removes TERM.
SetTERM(v) ==
    /\ envTERM' = v
    /\ envTERM' # envTERM
    /\ UNCHANGED <<windows, envNO_COLOR, bw, made>>
    /\ UNCHANGED notPolVars

\* The process sets or removes NO_COLOR.
SetNO_COLOR(v) ==
    /\ envNO_COLOR' = v
    /\ envNO_COLOR' # envNO_COLOR
    /\ UNCHANGED <<windows, envTERM, bw, made>>
    /\ UNCHANGED notPolVars

\* BufferWriter::create(sty, choice).  The writer remembers, as history, the
\* choice, the value should_attempt_color returned and the environment it
\* was constructed in.
Create(choice, vt) ==
    /\ bw = <<>>
    /\ vt => windows
    /\ bw' = <<[choice |-> choice,
                attempt |-> should_attempt_color(choice),
                use_color |-> use_color(choice, vt),
                vt |-> vt,
                term |-> envTERM,
                no_color |-> envNO_COLOR]>>
    /\ UNCHANGED <<windows, envTERM, envNO_COLOR, made>>
    /\ UNCHANGED notPolVars

MaxBuffers == 2

\* Mutant of BufferWriter_buffer: the policy is evaluated again, in the
\* environment of the call.
BufferWriter_buffer_reevaluated ==
    IF use_color(bw[1].choice, bw[1].vt) THEN "Ansi" ELSE "NoColor"

\* BufferWriter::buffer: the variant of the Buffer it returns.
BufferWriter_buffer == IF bw[1].use_color THEN "Ansi" ELSE "NoColor"

\* bw.buffer().  The history keeps the variant returned and what the policy
\* would resolve to in the environment of the call.
buffer ==
    /\ bw # <<>>
    /\ Len(made) < MaxBuffers
    /\ made' = Append(made, [variant |-> BufferWriter_buffer,
                              now |-> use_color(bw[1].choice, bw[1].vt)])
    /\ UNCHANGED <<windows, envTERM, envNO_COLOR, bw>>
    /\ UNCHANGED notPolVars

NextPolicy ==
    \/ \E v \in {<<>>} \cup {<<x>> : x \in TermValues} : SetTERM(v)
    \/ \E v \in {<<>>} \cup {<<x>> : x \in NoColorValues} : SetNO_COLOR(v)
    \/ \E choice \in ColorChoices, vt \in BOOLEAN : Create(choice, vt)
    \/ buffer

SpecPolicy == InitPolicy /\ [][NextPolicy]_vars

----------------------------------------------------------------------------
(* StandardStream (writers.rs): WriterInner::create chooses the variant    *)
(* from the choice and the environment; the stream, or the                 *)
(* StandardStreamLock taken from it, is then written to and styled.        *)

MaxStreamOps == 2

StreamOpNames == {"write", "flush", "set_color", "set_hyperlink", "reset"}

\* #[cfg(not(windows))] / #[cfg(windows)] WriterInner::create; vt is the
\* outcome of Console::stdout() and set_virtual_terminal_processing(true).
WriterInner_create(choice, vt) ==
    IF windows
        THEN LET enabled_virtual ==
                    IF should_attempt_color(choice) THEN vt ELSE FALSE
             IN  IF should_attempt_color(choice)
                        /\ (enabled_virtual \/ should_force_ansi(choice))
                    THEN "Ansi" ELSE "NoColor"
        ELSE IF should_attempt_color(choice) THEN "Ansi" ELSE "NoColor"

\* WriteColor for WriterInner / WriterInnerLock: supports_color
supports_color(variant) ==
    CASE variant = "NoColor" -> FALSE
      [] variant = "Ansi" -> TRUE

\* WriteColor for WriterInner / WriterInnerLock: supports_hyperlinks
supports_hyperlinks(variant) ==
    CASE variant = "NoColor" -> FALSE
      [] variant = "Ansi" -> TRUE

\* StandardStreamLock::from_stream: the variant of the lock guard.
from_stream(variant) ==
    CASE variant = "NoColor" -> "NoColor"
      [] variant = "Ansi" -> "Ansi"

\* The bytes a call hands to the stream: write(b"hi"), flush,
\* set_color(fg Green, bold), set_hyperlink(open(b"u")), reset.
StreamWrites(variant, op) ==
    LET green == [DefaultSpec EXCEPT !.fg_color = <<"Green">>, !.bold = TRUE]
    IN  CASE op = "write" -> <<104, 105>>
          [] op = "flush" -> <<>>
          [] op = "set_color" ->
                IF variant = "Ansi" THEN AnsiSetColorOp(<<>>, green).data
                                    ELSE NoColorSetColor(<<>>, green).data
          [] op = "set_hyperlink" ->
                IF variant = "Ansi" THEN AnsiSetHyperlink(<<>>, <<<<117>>>>).data
                                    ELSE NoColorSetHyperlink(<<>>, <<<<117>>>>).data
          [] op = "reset" ->
                IF variant = "Ansi" THEN AnsiReset(<<>>).data
                                    ELSE NoColorReset(<<>>).data

InitStream ==
    /\ windows \in BOOLEAN
    /\ envTERM \in {<<>>} \cup {<<v>> : v \in TermValues}
    /\ envNO_COLOR \in {<<>>} \cup {<<v>> : v \in NoColorValues}
    /\ bw = <<>>
    /\ made = <<>>
    /\ StreamUnused
    /\ EncUnused
    /\ PrintUnused
    /\ BufUnused

\* StandardStream::stdout(choice) / stderr(choice).  The stream remembers,
\* as history, the choice, what should_attempt_color returned and the
\* environment it was constructed in.
CreateStream(choice, vt) ==
    /\ ss = <<>>
    /\ vt => windows
    /\ ss' = <<[choice |-> choice,
                attempt |-> should_attempt_color(choice),
                variant |-> WriterInner_create(choice, vt),
                vt |-> vt,
                term |-> envTERM,
                no_color |-> envNO_COLOR]>>
    /\ UNCHANGED <<ssLock, ssOps>>
    /\ UNCHANGED polVars
    /\ UNCHANGED notStreamVars

\* StandardStream::lock
LockStream ==
    /\ ss # <<>>
    /\ ssLock = <<>>
    /\ ssLock' = <<from_stream(ss[1].variant)>>
    /\ UNCHANGED <<ss, ssOps>>
    /\ UNCHANGED polVars
    /\ UNCHANGED notStreamVars

\* The StandardStreamLock is dropped.
DropLock ==
    /\ ssLock # <<>>
    /\ ssLock' = <<>>
    /\ UNCHANGED <<ss, ssOps>>
    /\ UNCHANGED polVars
    /\ UNCHANGED notStreamVars

\* io::Write / WriteColor for StandardStream, or for the StandardStreamLock
\* while one is alive (it borrows the stream): the call dispatches on the
\* variant in place.  The history keeps what supports_color() and
\* supports_hyperlinks() answer after the call.
StreamCall(op) ==
    /\ ss # <<>>
    /\ Len(ssOps) < MaxStreamOps
    /\ LET v == IF ssLock # <<>> THEN ssLock[1] ELSE ss[1].variant
       IN  ssOps' = Append(ssOps,
                       [op |-> op, locked |-> ssLock # <<>>,
                        wrote |-> StreamWrites(v, op),
                        supports_color |-> supports_color(v),
                        supports_hyperlinks |-> supports_hyperlinks(v)])
    /\ UNCHANGED <<ss, ssLock>>
    /\ UNCHANGED polVars
    /\ UNCHANGED notStreamVars

NextStream ==
    \/ \E choice \in ColorChoices, vt \in BOOLEAN : CreateStream(choice, vt)
    \/ LockStream
    \/ DropLock
    \/ \E op \in StreamOpNames : StreamCall(op)

SpecStream == InitStream /\ [][NextStream]_vars

----------------------------------------------------------------------------
(* One writer, a Buffer or a StandardStream, used through every operation  *)
(* it has, Buffer::clear and flush included.  Writers share no state, so a *)
(* behaviour follows one of them.                                          *)

MaxVariantOps == 3

InitVariant ==
    /\ bufTag \in {"NoColor", "Ansi"}
    /\ bufData = <<>>
    /\ bufOps = <<>>
    /\ windows \in BOOLEAN
    /\ envTERM \in {<<>>, <<"xterm">>}
    /\ envNO_COLOR = <<>>
    /\ bw = <<>>
    /\ made = <<>>
    /\ StreamUnused
    /\ EncUnused
    /\ PrintUnused

NextVariant ==
    \/ /\ ss = <<>>
       /\ Len(bufOps) < MaxVariantOps
       /\ (NextBuf \/ BufFlush \/ BufClear)
    \/ /\ bufOps = <<>>
       /\ NextStream

SpecVariant == InitVariant /\ [][NextVariant]_vars

----------------------------------------------------------------------------
(* Ansi<W> (writers.rs) over a sink W whose write_all can fail.  Each of    *)
(* set_color, set_hyperlink and reset is a chain of `write_all(..)?`       *)
(* calls; a fault <<j, n, e>> makes the j-th write_all of the call fail    *)
(* with error e after the sink took n bytes of its slice, <<>> is no fault.*)

MaxFailCalls == 2

IoErrors == {"BrokenPipe", "Other"}

\* Mutant of WriteAllChain: the result of each write_all is dropped instead
\* of returned with `?`.
RECURSIVE WriteAllChain_ignoresErr(_, _, _, _)
WriteAllChain_ignoresErr(chunks, fault, i, acc) ==
    IF i > Len(chunks)
        THEN [wrote |-> acc, attempts |-> Len(chunks), ret |-> <<"Ok">>]
    ELSE IF fault # <<>> /\ fault[1] = i
        THEN WriteAllChain_ignoresErr(chunks, fault, i + 1,
                                      acc \o SubSeq(chunks[i], 1, fault[2]))
    ELSE WriteAllChain_ignoresErr(chunks, fault, i + 1, acc \o chunks[i])

\* The chain `self.write_all(c1)?; self.write_all(c2)?; ...; Ok(())` from
\* its i-th call on, acc being the bytes the sink took so far in this call.
RECURSIVE WriteAllChain(_, _, _, _)
WriteAllChain(chunks, fault, i, acc) ==
    IF i > Len(chunks)
        THEN [wrote |-> acc, attempts |-> Len(chunks), ret |-> <<"Ok">>]
    ELSE IF fault # <<>> /\ fault[1] = i
        THEN [wrote |-> acc \o SubSeq(chunks[i], 1, fault[2]),
              attempts |-> i,
              ret |-> <<"Err", fault[3]>>]
    ELSE WriteAllChain(chunks, fault, i + 1, acc \o chunks[i])

\* Mutant of AnsiSetHyperlinkWrites: the sequence is closed by BEL.
AnsiSetHyperlinkWrites_bel(link) ==
    <<<<27, 93, 56, 59, 59>>>>
        \o (IF link # <<>> THEN <<link[1]>> ELSE <<>>)
        \o <<<<7>>>>

\* Ansi::set_hyperlink: its write_all calls in source order, as chunks.
AnsiSetHyperlinkWrites(link) ==
    <<<<27, 93, 56, 59, 59>>>>
        \o (IF link # <<>> THEN <<link[1]>> ELSE <<>>)
        \o <<<<27, 92>>>>

\* The write_all calls of one operation of the Ansi writer.
AnsiOpWrites(op, arg) ==
    CASE op = "set_color" -> AnsiSetColorWrites(arg)
      [] op = "set_hyperlink" -> AnsiSetHyperlinkWrites(arg)
      [] op = "reset" -> AnsiResetWrites

\* The HyperlinkSpecs passed to set_hyperlink: those of the Buffer machine
\* and open(b" \x1B"), a URI with a space and an escape byte.
FailLinks == BufLinks \cup {<<<<32, 27>>>>}

\* The calls made on the writer.
FailOps ==
    {<<"set_color", spec>> : spec \in BufSpecs}
        \cup {<<"set_hyperlink", link>> : link \in FailLinks}
        \cup {<<"reset", <<>>>>}

\* The faults the sink can have during a call with these write_all slices.
Faults(chunks) ==
    {<<>>} \cup
    {<<j, n, e>> : j \in 1..Len(chunks), n \in 0..2, e \in IoErrors}

\* One call on the Ansi writer, from entry to return.
FailingCall(op, arg, fault) ==
    /\ Len(fcalls) < MaxFailCalls
    /\ fault # <<>> => fault[2] < Len(AnsiOpWrites(op, arg)[fault[1]])
    /\ LET r == WriteAllChain(AnsiOpWrites(op, arg), fault, 1, <<>>)
       IN  /\ fsink' = fsink \o r.wrote
           /\ fcalls' = Append(fcalls,
                          [op |-> op, arg |-> arg, fault |-> fault,
                           before |-> fsink, after |-> fsink \o r.wrote,
                           attempts |-> r.attempts, ret |-> r.ret])
    /\ UNCHANGED notFailVars

\* A writer is used through the failing Ansi operations, or print runs.
InitFail ==
    /\ InitPrintVars
    /\ EncUnused
    /\ BufUnused
    /\ PolUnused
    /\ StreamUnused

NextFail ==
    \/ /\ fcalls = <<>>
       /\ Next
    \/ /\ calls = <<>>
       /\ sepCalls = 0
       /\ \E o \in FailOps : \E fault \in Faults(AnsiOpWrites(o[1], o[2])) :
              FailingCall(o[1], o[2], fault)

SpecFail == InitFail /\ [][NextFail]_vars

----------------------------------------------------------------------------
(* FromStr for Color and for ColorSpec (types.rs).  A &str is a string; its *)
(* i-th character is SubSeq(s, i, i).  A Result is <<"Ok", value>> or      *)
(* <<"Err", error>>; a ParseColorError is [kind, given].                   *)

MaxStrLen == 5

MaxTokens == 3

U8Max == 255

\* char::to_digit(radix), radix 10 or 16: <<digit>>, or <<>> for None.
to_digit(c, radix) ==
    LET lower == <<"0", "1", "2", "3", "4", "5", "6", "7", "8", "9",
                   "a", "b", "c", "d", "e", "f">>
        upper == <<"0", "1", "2", "3", "4", "5", "6", "7", "8", "9",
                   "A", "B", "C", "D", "E", "F">>
        hit(d) == c = lower[d] \/ c = upper[d]
    IN  IF \E d \in 1..radix : hit(d)
            THEN <<(CHOOSE d \in 1..radix : hit(d)) - 1>>
            ELSE <<>>

\* u8::from_str_radix(src, radix).ok() and str::parse::<u8>().ok(): an empty
\* string and a lone sign are errors, one leading '+' is skipped, then every
\* character must be a digit and the value must stay within u8.
u8_from_str_radix(src, radix) ==
    LET RECURSIVE digits(_, _)
        digits(i, acc) ==
            IF i > Len(src) THEN <<acc>>
            ELSE LET d == to_digit(SubSeq(src, i, i), radix)
                 IN  IF d = <<>> THEN <<>>
                     ELSE IF acc * radix + d[1] > U8Max THEN <<>>
                     ELSE digits(i + 1, acc * radix + d[1])
    IN  IF Len(src) = 0 THEN <<>>
        ELSE IF src \in {"+", "-"} THEN <<>>
        ELSE IF SubSeq(src, 1, 1) = "+" THEN digits(2, 0)
        ELSE digits(1, 0)

\* str::strip_prefix: <<rest>> when s starts with prefix, else <<>>.
strip_prefix(s, prefix) ==
    IF Len(s) >= Len(prefix) /\ SubSeq(s, 1, Len(prefix)) = prefix
        THEN <<SubSeq(s, Len(prefix) + 1, Len(s))>>
        ELSE <<>>

\* Mutant of parse_number: the 0x prefix is not recognised.
parse_number_decimalOnly(s) == u8_from_str_radix(s, 10)

\* fn parse_number inside Color::from_str_numeric.
parse_number(s) ==
    IF strip_prefix(s, "0x") # <<>>
        THEN u8_from_str_radix(strip_prefix(s, "0x")[1], 16)
        ELSE u8_from_str_radix(s, 10)

\* str::split(','): the fields between the separators, in order; a string
\* with no separator is one field.
RECURSIVE split(_, _)
split(s, sep) ==
    IF \E i \in 1..Len(s) : SubSeq(s, i, i) = sep
        THEN LET i == CHOOSE i \in 1..Len(s) :
                        /\ SubSeq(s, i, i) = sep
                        /\ \A j \in 1..(i - 1) : SubSeq(s, j, j) # sep
             IN  <<SubSeq(s, 1, i - 1)>>
                     \o split(SubSeq(s, i + 1, Len(s)), sep)
        ELSE <<s>>

\* Color::from_str_numeric.
from_str_numeric(s) ==
    LET codes == split(s, ",")
        err(kind) == <<"Err", [kind |-> kind, given |-> s]>>
    IN  IF Len(codes) = 1
            THEN IF parse_number(codes[1]) # <<>>
                     THEN <<"Ok", <<"Ansi256", parse_number(codes[1])[1]>>>>
                 ELSE IF \A i \in 1..Len(s) :
                             to_digit(SubSeq(s, i, i), 16) # <<>>
                     THEN err("InvalidAnsi256")
                 ELSE err("InvalidName")
        ELSE IF Len(codes) = 3
            THEN IF \E i \in 1..3 : parse_number(codes[i]) = <<>>
                     THEN err("InvalidRgb")
                     ELSE <<"Ok", <<"Rgb", parse_number(codes[1])[1],
                                    parse_number(codes[2])[1],
                                    parse_number(codes[3])[1]>>>>
        ELSE IF \E i \in 1..Len(s) : SubSeq(s, i, i) = ","
            THEN err("InvalidRgb")
        ELSE err("InvalidName")

\* Mutant of to_lowercase: the text is returned as it is.
to_lowercase_identity(s) == s

\* str::to_lowercase on ASCII text.
RECURSIVE to_lowercase(_)
to_lowercase(s) ==
    LET upper == "ABCDEFGHIJKLMNOPQRSTUVWXYZ"
        lower == "abcdefghijklmnopqrstuvwxyz"
        low(c) == IF \E k \in 1..26 : SubSeq(upper, k, k) = c
                      THEN LET k == CHOOSE k \in 1..26 : SubSeq(upper, k, k) = c
                           IN  SubSeq(lower, k, k)
                      ELSE c
    IN  IF Len(s) = 0 THEN s
        ELSE low(SubSeq(s, 1, 1)) \o to_lowercase(SubSeq(s, 2, Len(s)))

\* impl FromStr for Color.
Color_from_str(s) ==
    LET l == to_lowercase(s)
    IN  CASE l = "black" -> <<"Ok", <<"Black">>>>
          [] l = "blue" -> <<"Ok", <<"Blue">>>>
          [] l = "green" -> <<"Ok", <<"Green">>>>
          [] l = "red" -> <<"Ok", <<"Red">>>>
          [] l = "cyan" -> <<"Ok", <<"Cyan">>>>
          [] l = "magenta" -> <<"Ok", <<"Magenta">>>>
          [] l = "yellow" -> <<"Ok", <<"Yellow">>>>
          [] l = "white" -> <<"Ok", <<"White">>>>
          [] OTHER -> from_str_numeric(s)

\* impl FromStr for ColorChoice; the error holds the `unknown` binding of
\* the match, which is the lowercased text.
ColorChoice_from_str(s) ==
    LET l == to_lowercase(s)
    IN  CASE l = "always" -> <<"Ok", "Always">>
          [] l = "always-ansi" -> <<"Ok", "AlwaysAnsi">>
          [] l = "never" -> <<"Ok", "Never">>
          [] l = "auto" -> <<"Ok", "Auto">>
          [] OTHER -> <<"Err", [unknown_choice |-> l]>>

\* str::trim: leading and trailing whitespace removed.
RECURSIVE trim(_)
trim(s) ==
    LET ws == {" ", "\t", "\n"}
    IN  IF Len(s) = 0 THEN s
        ELSE IF SubSeq(s, 1, 1) \in ws THEN trim(SubSeq(s, 2, Len(s)))
        ELSE IF SubSeq(s, Len(s), Len(s)) \in ws
            THEN trim(SubSeq(s, 1, Len(s) - 1))
        ELSE s

\* Mutant of ApplyPart: every part only turns bold on.
ApplyPart_boldOnly(color_spec, part) ==
    <<"Ok", [color_spec EXCEPT !.bold = TRUE]>>

\* One round of the loop of ColorSpec::from_str on a trimmed, non-empty
\* part: the if/else-if chain and the setter it calls.
ApplyPart(color_spec, part) ==
    LET color(str, field) ==
            LET r == Color_from_str(str)
            IN  IF r[1] = "Err" THEN <<"Err", <<"InvalidColor", r[2]>>>>
                ELSE IF field = "fg"
                    THEN <<"Ok", [color_spec EXCEPT !.fg_color = r[2]]>>
                ELSE <<"Ok", [color_spec EXCEPT !.bg_color = r[2]]>>
    IN  IF strip_prefix(part, "fg:") # <<>>
            THEN color(strip_prefix(part, "fg:")[1], "fg")
        ELSE IF strip_prefix(part, "bg:") # <<>>
            THEN color(strip_prefix(part, "bg:")[1], "bg")
        ELSE IF part = "bold"
            THEN <<"Ok", [color_spec EXCEPT !.bold = TRUE]>>
        ELSE IF part = "dimmed"
            THEN <<"Ok", [color_spec EXCEPT !.dimmed = TRUE]>>
        ELSE IF part = "underline"
            THEN <<"Ok", [color_spec EXCEPT !.underline = TRUE]>>
        ELSE IF part = "italic"
            THEN <<"Ok", [color_spec EXCEPT !.italic = TRUE]>>
        ELSE IF part = "intense"
            THEN <<"Ok", [color_spec EXCEPT !.intense = TRUE]>>
        ELSE IF part = "strikethrough"
            THEN <<"Ok", [color_spec EXCEPT !.strikethrough = TRUE]>>
        ELSE IF part = "reset"
            THEN <<"Ok", [color_spec EXCEPT !.reset = TRUE]>>
        ELSE IF part = "noreset"
            THEN <<"Ok", [color_spec EXCEPT !.reset = FALSE]>>
        ELSE color(part, "fg")

\* Mutant of ColorSpec_from_str: a part that fails to parse is skipped.
ColorSpec_from_str_skipsBad(spec) ==
    LET parts == split(spec, ",")
        RECURSIVE loop(_, _)
        loop(i, color_spec) ==
            IF i > Len(parts) THEN <<"Ok", color_spec>>
            ELSE IF Len(trim(parts[i])) = 0 THEN loop(i + 1, color_spec)
            ELSE LET r == ApplyPart(color_spec, trim(parts[i]))
                 IN  IF r[1] = "Err" THEN loop(i + 1, color_spec)
                     ELSE loop(i + 1, r[2])
    IN  loop(1, DefaultSpec)

\* impl FromStr for ColorSpec: the loop over spec.split(','), `?` returning
\* the first error.
ColorSpec_from_str(spec) ==
    LET parts == split(spec, ",")
        RECURSIVE loop(_, _)
        loop(i, color_spec) ==
            IF i > Len(parts) THEN <<"Ok", color_spec>>
            ELSE IF Len(trim(parts[i])) = 0 THEN loop(i + 1, color_spec)
            ELSE LET r == ApplyPart(color_spec, trim(parts[i]))
                 IN  IF r[1] = "Err" THEN r ELSE loop(i + 1, r[2])
    IN  loop(1, DefaultSpec)

\* The strings handed to Color::from_str: every string of at most MaxStrLen
\* characters over digits, 'x', '+' and ',', and a list of longer ones.
ColorStrings ==
    LET alphabet == {"0", "1", "x", "+", ","}
        RECURSIVE upTo(_)
        upTo(n) == IF n = 0 THEN {""}
                   ELSE upTo(n - 1)
                            \cup {s \o c : s \in upTo(n - 1), c \in alphabet}
    IN  upTo(MaxStrLen) \cup
        {"black", "Blue", "GREEN", "red", "cyan", "magenta", "yellow", "white",
         "bluex", "purple", "3", "300", "0300", "ff", "0xff", "0xFF", "0x0A", "0X0A", "0x1FF",
         "255", "256", "-1", " 1", "1 ", "+1,1,1", "0x+1,1,1", "300,1,1",
         "255,0x10,0", "1, 1,1", "1,1,1,1", "1,blue,1"}

\* The strings handed to ColorSpec::from_str: the tokens of the format joined
\* by commas, at most MaxTokens of them, and "fg:" / "bg:" in front of every
\* string Color::from_str accepts.
StyleStrings ==
    LET tokens == {"fg:blue", "fg:1", "bg:red", "bg:0x0A", "bold", "italic",
                   "reset", "noreset", "cyan", " bold ", "", "fg:nocolor"}
        RECURSIVE joined(_)
        joined(n) == IF n = 1 THEN tokens
                     ELSE joined(n - 1)
                              \cup {s \o "," \o t : s \in joined(n - 1),
                                                     t \in tokens}
    IN  joined(MaxTokens) \cup
        {"dimmed,underline", "intense, strikethrough ,fg:GREEN", "Bold",
         "bold,fg:nocolor,Bold",
         "bg:blue,bg:", "\tnoreset\n,reset,dimmed"} \cup
        {p \o c : p \in {"fg:", "bg:"},
                  c \in {c \in ColorStrings : Color_from_str(c)[1] = "Ok"}}

\* Every letter-case spelling of the eight color names.
NameSpellings ==
    LET upper == "ABCDEFGHIJKLMNOPQRSTUVWXYZ"
        lower == "abcdefghijklmnopqrstuvwxyz"
        up(c) == LET k == CHOOSE k \in 1..26 : SubSeq(lower, k, k) = c
                 IN  SubSeq(upper, k, k)
        RECURSIVE spell(_)
        spell(name) ==
            IF Len(name) = 0 THEN {""}
            ELSE {c \o rest : c \in {SubSeq(name, 1, 1), up(SubSeq(name, 1, 1))},
                              rest \in spell(SubSeq(name, 2, Len(name)))}
    IN  UNION {spell(name) : name \in {"black", "blue", "green", "red", "cyan",
                                       "magenta", "yellow", "white"}}

\* The strings handed to ColorChoice::from_str.
ChoiceStrings ==
    {"always", "always-ansi", "never", "auto", "Always", "ALWAYS",
     "Always-Ansi", "AUTO", "nEVER", "alwaysansi", "always_ansi", "ansi", "",
     "Foo", "foo", " auto", "yes", "AlwaysAnsi"}

InitParse ==
    /\ pin \in ColorStrings \cup StyleStrings \cup NameSpellings
                   \cup ChoiceStrings
    /\ pout = <<>>
    /\ ss = <<>>
    /\ ssLock = <<>>
    /\ ssOps = <<>>
    /\ fsink = <<>>
    /\ fcalls = <<>>
    /\ swKind = ""
    /\ swInner = <<>>
    /\ swOps = <<>>
    /\ EncUnused
    /\ PrintUnused
    /\ BufUnused
    /\ PolUnused

\* pin.parse::<Color>()
ParseColor ==
    /\ pout = <<>>
    /\ pout' = <<"Color", Color_from_str(pin)>>
    /\ UNCHANGED pin
    /\ UNCHANGED notParseVars

\* pin.parse::<ColorSpec>()
ParseStyle ==
    /\ pout = <<>>
    /\ pout' = <<"ColorSpec", ColorSpec_from_str(pin)>>
    /\ UNCHANGED pin
    /\ UNCHANGED notParseVars

\* pin.parse::<ColorChoice>()
ParseChoice ==
    /\ pout = <<>>
    /\ pout' = <<"ColorChoice", ColorChoice_from_str(pin)>>
    /\ UNCHANGED pin
    /\ UNCHANGED notParseVars

NextParse == ParseColor \/ ParseStyle \/ ParseChoice

SpecParse == InitParse /\ [][NextParse]_vars

----------------------------------------------------------------------------
(* StringWriter and TermString (writers.rs): a String behind io::Write and *)
(* WriteColor.  The String is kept as its UTF-8 bytes.                     *)

MaxStringOps == 3

\* The byte slices passed to write: empty, "hi", U+00E9, U+20AC, the first
\* byte of U+00E9 alone, its second byte alone, a UTF-16 surrogate in three
\* bytes, and 0xFF.
StringPayloads ==
    {<<>>, <<104, 105>>, <<195, 169>>, <<226, 130, 172>>, <<195>>, <<169>>,
     <<237, 160, 128>>, <<255>>}

\* std::str::from_utf8(buf).is_ok(): buf is a run of well-formed UTF-8
\* sequences of one to four bytes.
RECURSIVE from_utf8(_)
from_utf8(buf) ==
    LET n == Len(buf)
        cont(k, lo, hi) == k <= n /\ buf[k] >= lo /\ buf[k] <= hi
        rest(k) == from_utf8(SubSeq(buf, k, n))
        b == buf[1]
    IN  IF n = 0 THEN TRUE
        ELSE IF b < 128 THEN rest(2)
        ELSE IF b >= 194 /\ b <= 223 THEN cont(2, 128, 191) /\ rest(3)
        ELSE IF b = 224 THEN cont(2, 160, 191) /\ cont(3, 128, 191) /\ rest(4)
        ELSE IF b = 237 THEN cont(2, 128, 159) /\ cont(3, 128, 191) /\ rest(4)
        ELSE IF b >= 225 /\ b <= 239
            THEN cont(2, 128, 191) /\ cont(3, 128, 191) /\ rest(4)
        ELSE IF b = 240
            THEN cont(2, 144, 191) /\ cont(3, 128, 191) /\ cont(4, 128, 191)
                     /\ rest(5)
        ELSE IF b = 244
            THEN cont(2, 128, 143) /\ cont(3, 128, 191) /\ cont(4, 128, 191)
                     /\ rest(5)
        ELSE IF b >= 241 /\ b <= 243
            THEN cont(2, 128, 191) /\ cont(3, 128, 191) /\ cont(4, 128, 191)
                     /\ rest(5)
        ELSE FALSE

\* Mutant of StringWrite: bytes that are not UTF-8 are appended as well.
StringWrite_lossy(inner, buf) ==
    [inner |-> inner \o buf, ret |-> <<"Ok", Len(buf)>>]

\* io::Write::write of StringWriter and of TermString (the two bodies are
\* the same): push_str and Ok(buf.len()), or Err(InvalidData).
StringWrite(inner, buf) ==
    IF from_utf8(buf)
        THEN [inner |-> inner \o buf, ret |-> <<"Ok", Len(buf)>>]
        ELSE [inner |-> inner, ret |-> <<"Err", "InvalidData">>]

\* StringWriter::new() / TermString::new()
InitString ==
    /\ swKind \in {"StringWriter", "TermString"}
    /\ swInner = <<>>
    /\ swOps = <<>>
    /\ ss = <<>>
    /\ ssLock = <<>>
    /\ ssOps = <<>>
    /\ fsink = <<>>
    /\ fcalls = <<>>
    /\ pin = ""
    /\ pout = <<>>
    /\ EncUnused
    /\ PrintUnused
    /\ BufUnused
    /\ PolUnused

\* wtr.write(buf)
StringWriteCall(buf) ==
    /\ Len(swOps) < MaxStringOps
    /\ swInner' = StringWrite(swInner, buf).inner
    /\ swOps' = Append(swOps,
                  [op |-> "write", arg |-> buf,
                   ret |-> StringWrite(swInner, buf).ret,
                   before |-> swInner, after |-> swInner'])
    /\ UNCHANGED swKind
    /\ UNCHANGED notStringVars

\* wtr.flush(), set_color(spec), set_hyperlink(link), reset(): Ok(()) with
\* the arguments ignored.
StringStyleCall(op) ==
    /\ Len(swOps) < MaxStringOps
    /\ swOps' = Append(swOps,
                  [op |-> op, arg |-> <<>>, ret |-> <<"Ok">>,
                   before |-> swInner, after |-> swInner])
    /\ UNCHANGED <<swKind, swInner>>
    /\ UNCHANGED notStringVars

NextString ==
    \/ \E buf \in StringPayloads : StringWriteCall(buf)
    \/ \E op \in {"flush", "set_color", "set_hyperlink", "reset"} :
          StringStyleCall(op)

SpecString == InitString /\ [][NextString]_vars

----------------------------------------------------------------------------
(* Properties.                                                             *)

\* TRUE iff sub occurs in s as a contiguous run of bytes.
Contains(s, sub) ==
    \E k \in 0..(Len(s) - Len(sub)) :
        \A j \in 1..Len(sub) : s[k + j] = sub[j]

EndsWith(s, suf) ==
    /\ Len(suf) <= Len(s)
    /\ \A j \in 1..Len(suf) : s[Len(s) - Len(suf) + j] = suf[j]

\* "\x1B[<d>m" for a single digit d.
SGR(d) == <<27, 91, 48 + d, 109>>

\* The canonical decimal representation of n in 0..255, by its range.
Decimal(n) ==
    IF n < 10 THEN <<48 + n>>
    ELSE IF n < 100 THEN <<48 + (n \div 10), 48 + (n % 10)>>
    ELSE <<48 + (n \div 100), 48 + ((n \div 10) % 10), 48 + (n % 10)>>

\* The position of a named color in the ANSI order
\* Black, Red, Green, Yellow, Blue, Magenta, Cyan, White.
AnsiIndex(name) ==
    CASE name = "Black" -> 0 [] name = "Red" -> 1 [] name = "Green" -> 2
      [] name = "Yellow" -> 3 [] name = "Blue" -> 4 [] name = "Magenta" -> 5
      [] name = "Cyan" -> 6 [] name = "White" -> 7

\* The color-code table of the specification: 30-37 / 40-47 for a named
\* color, 38;5;{8..15} / 48;5;{8..15} for an intense named color,
\* 38;5;n / 48;5;n for Ansi256(n), 38;2;r;g;b / 48;2;r;g;b for Rgb.
TableCode(c, fg, intense) ==
    LET lead == IF fg THEN 51 ELSE 52
    IN  IF IsNamed(c)
        THEN IF intense
             THEN <<27, 91, lead, 56, 59, 53, 59>>
                    \o Decimal(8 + AnsiIndex(c[1])) \o <<109>>
             ELSE <<27, 91, lead, 48 + AnsiIndex(c[1]), 109>>
        ELSE IF c[1] = "Ansi256"
        THEN <<27, 91, lead, 56, 59, 53, 59>> \o Decimal(c[2]) \o <<109>>
        ELSE <<27, 91, lead, 56, 59, 50, 59>> \o Decimal(c[2]) \o <<59>>
                \o Decimal(c[3]) \o <<59>> \o Decimal(c[4]) \o <<109>>

\* C4: ansi_spec of a spec with intense set and a named foreground emits
\* the foreground in its bright form ESC[38;5;{8..15}m and ends with the
\* extra bold ESC[1m; fg=Green, intense, reset=false and nothing else set
\* gives exactly ESC[38;5;10m ESC[1m.
C4_IntenseNamedFgBrightThenBold ==
    (dispDone /\ cspec.intense /\ cspec.fg_color # NoneColor
        /\ IsNamed(cspec.fg_color)) =>
        /\ Contains(disp, TableCode(cspec.fg_color, TRUE, TRUE))
        /\ EndsWith(disp, SGR(1))
        /\ (cspec = OneColorSpec(<<"Green">>, TRUE, TRUE) =>
                disp = <<27, 91, 51, 56, 59, 53, 59, 49, 48, 109, 27, 91, 49, 109>>)

\* The fixed order of the specification, section 4.1.
OrderedCodes(s) ==
       (IF s.reset THEN SGR(0) ELSE <<>>)
    \o (IF s.bold THEN SGR(1) ELSE <<>>)
    \o (IF s.dimmed THEN SGR(2) ELSE <<>>)
    \o (IF s.italic THEN SGR(3) ELSE <<>>)
    \o (IF s.underline THEN SGR(4) ELSE <<>>)
    \o (IF s.strikethrough THEN SGR(9) ELSE <<>>)
    \o (IF s.fg_color # NoneColor THEN TableCode(s.fg_color, TRUE, FALSE) ELSE <<>>)
    \o (IF s.bg_color # NoneColor THEN TableCode(s.bg_color, FALSE, FALSE) ELSE <<>>)
    \o (IF s.intense /\ s.fg_color # NoneColor THEN SGR(1) ELSE <<>>)

C6_SetColorEqualsAnsiSpec ==
    (dispDone /\ sinkDone) => sink = disp

\* The single color of a one-color spec, and whether it is the foreground.
OneColorIsFg == cspec.fg_color # NoneColor

OneColor == IF OneColorIsFg THEN cspec.fg_color ELSE cspec.bg_color

\* C7: the one color code Ansi::set_color writes for a spec with reset =
\* false and a single color equals the table, for foreground and
\* background, intense and not.
C7_WriteColorTable ==
    sinkDone => sink = TableCode(OneColor, OneColorIsFg, cspec.intense)

\* C7 witness: an intense named background went through set_color.
C7_Witness ==
    /\ sinkDone
    /\ cspec.intense
    /\ cspec.bg_color = <<"Magenta">>
    /\ sink = <<27, 91, 52, 56, 59, 53, 59, 49, 51, 109>>

\* The fields of s between separators sep, left to right.
RECURSIVE SplitAt(_, _, _)
SplitAt(s, sep, acc) ==
    IF s = <<>> THEN <<acc>>
    ELSE IF Head(s) = sep THEN <<acc>> \o SplitAt(Tail(s), sep, <<>>)
    ELSE SplitAt(Tail(s), sep, Append(acc, Head(s)))

\* The number a run of ASCII digits denotes.
RECURSIVE DigitsValue(_)
DigitsValue(d) ==
    IF d = <<>> THEN 0
    ELSE 10 * DigitsValue(SubSeq(d, 1, Len(d) - 1)) + (d[Len(d)] - 48)

\* The components of an Ansi256 or Rgb color.
Components(c) == SubSeq(c, 2, Len(c))

\* C8: for an Ansi256 or Rgb color the code written by the hand-rolled
\* formatter is the 7-byte prefix, then one field per component separated
\* by ';', then a single 'm'; every field is the canonical decimal of its
\* component: digits only, never empty, no leading zero, one digit for
\* 0-9, two for 10-99, three for 100-255.
C8_CanonicalDecimal ==
    (sinkDone /\ ~IsNamed(OneColor)) =>
        LET body == SubSeq(sink, 8, Len(sink) - 1)
            fields == SplitAt(body, 59, <<>>)
            comps == Components(OneColor)
        IN  /\ Len(sink) >= 9
            /\ sink[Len(sink)] = 109
            /\ \A k \in 1..Len(body) : body[k] # 109
            /\ Len(fields) = Len(comps)
            /\ \A k \in 1..Len(fields) :
                  LET f == fields[k]
                      n == comps[k]
                  IN  /\ Len(f) >= 1
                      /\ \A j \in 1..Len(f) : f[j] \in 48..57
                      /\ Len(f) > 1 => f[1] # 48
                      /\ Len(f) = (IF n < 10 THEN 1 ELSE IF n < 100 THEN 2 ELSE 3)
                      /\ DigitsValue(f) = n

\* C8 witness: Rgb(0, 105, 255), with a zero field and an inner zero digit,
\* was written as a foreground.
C8_Witness ==
    /\ sinkDone
    /\ cspec.fg_color = <<"Rgb", 0, 105, 255>>
    /\ sink = <<27, 91, 51, 56, 59, 50, 59, 48, 59, 49, 48, 53, 59, 50, 53, 53, 109>>

\* The entries of the device written by print call k, and their bytes.
CallEntries(k) == SelectSeq(device, LAMBDA e : e.call = k)

EntryBytes(es) == [j \in 1..Len(es) |-> es[j].b]

\* What call k writes when it runs to the end: the separator and a newline
\* if its separator test passed, then its buffer.
Segment(k) ==
    (IF calls[k].sep # <<>> THEN calls[k].sep[1] \o <<10>> ELSE <<>>)
        \o calls[k].content

IsPrefix(p, s) == Len(p) <= Len(s) /\ \A j \in 1..Len(p) : p[j] = s[j]

\* C1: with threads printing concurrently, the bytes on the device are
\* whole per-call segments one after the other: no byte of one print call
\* lies between two bytes of another, a call that returned Ok has its whole
\* segment (separator + newline if any, then the full buffer) on the
\* device, and a call under way or failed has a prefix of its segment.
C1_NoInterleaving ==
    /\ \A i \in 1..Len(device) : \A j \in i..Len(device) :
          device[i].call = device[j].call =>
              \A m \in i..j : device[m].call = device[i].call
    /\ \A k \in 1..Len(calls) :
          /\ IsPrefix(EntryBytes(CallEntries(k)), Segment(k))
          /\ calls[k].result = "Ok" =>
                EntryBytes(CallEntries(k)) =
                    IF calls[k].content = <<>> THEN <<>> ELSE Segment(k)

\* C1 witness: the thread that entered print first is in the middle of
\* writing its buffer, after its separator, while the print that another
\* thread started later has already returned: the two calls overlapped.
C1_Witness ==
    \E t1 \in Threads, t2 \in Threads :
        /\ t1 # t2
        /\ Len(calls) = 2
        /\ calls[1].thread = t1 /\ cur[t1] = 1
        /\ pc[t1] = "buf" /\ pos[t1] > 0
        /\ calls[1].sep # <<>>
        /\ calls[2].thread = t2
        /\ calls[2].content # <<>> /\ calls[2].result = "Ok"

NoFailure == \A k \in 1..Len(calls) : calls[k].result # "Err"

\* The print calls of non-empty buffers that returned Ok.
Printed == {k \in 1..Len(calls) : calls[k].content # <<>> /\ calls[k].result = "Ok"}

\* C2: with the separator configured before any print and every print
\* succeeding, the first buffer on the device has no separator before it and
\* every later one has exactly the separator and a newline directly before
\* its bytes, so N successful prints leave N-1 separators on the device.
C2_SeparatorBetween ==
    (separator # <<>> /\ ~sepLate /\ NoFailure) =>
        /\ \A k \in Printed :
              /\ EntryBytes(CallEntries(k)) =
                    (IF device[1].call = k THEN <<>> ELSE separator[1] \o <<10>>)
                        \o calls[k].content
              /\ \A j \in 1..Len(CallEntries(k)) :
                    CallEntries(k)[j].part =
                        IF j > Len(CallEntries(k)) - Len(calls[k].content) THEN "buf"
                        ELSE IF j = Len(CallEntries(k)) - Len(calls[k].content) THEN "nl"
                        ELSE "sep"
        /\ (\A t \in Threads : pc[t] = "idle") /\ Printed # {} =>
              Cardinality({j \in 1..Len(device) : device[j].part = "nl"})
                  = Cardinality(Printed) - 1

\* C2 witness: two prints of non-empty buffers have returned Ok under a
\* separator set before the first of them.
C2_Witness ==
    /\ separator = <<<<45>>>> /\ ~sepLate /\ NoFailure
    /\ Cardinality(Printed) = 2
    /\ \A t \in Threads : pc[t] = "idle"

\* The step is a print call of thread t with an empty buffer.
EmptyPrintStep(t) ==
    /\ Len(calls') = Len(calls) + 1
    /\ calls'[Len(calls')].thread = t
    /\ calls'[Len(calls')].content = <<>>

\* C3: print on an empty buffer returns Ok and changes nothing: the lock is
\* not taken, no byte reaches the device and the printed flag stays as it
\* was; so the flag is set, and a separator written, only after a print of
\* a non-empty buffer.
C3_EmptyPrintNoOp ==
    /\ [][\A t \in Threads : EmptyPrintStep(t) =>
            /\ calls'[Len(calls')].result = "Ok"
            /\ UNCHANGED <<device, printed, lockHolder, pc, separator>>]_vars
    /\ [](\A k \in 1..Len(calls) : calls[k].content = <<>> =>
            /\ CallEntries(k) = <<>>
            /\ calls[k].result = "Ok")
    /\ [](printed => \E k \in 1..Len(calls) : calls[k].content # <<>>)

\* C3 witness: an empty buffer was printed after a successful print under
\* a configured separator, and no separator is on the device.
C3_Witness ==
    /\ Len(calls) = 2
    /\ calls[1].content # <<>> /\ calls[1].result = "Ok"
    /\ calls[2].content = <<>> /\ calls[2].result = "Ok"
    /\ separator = <<<<45>>>> /\ printed
    /\ \A j \in 1..Len(device) : device[j].part = "buf"

\* The payloads of the write calls among ops, in call order.
RECURSIVE WritePayloads(_)
WritePayloads(ops) ==
    IF ops = <<>> THEN <<>>
    ELSE (IF Head(ops).op = "write" THEN <<Head(ops).arg>> ELSE <<>>)
            \o WritePayloads(Tail(ops))

\* C9: on a no-color Buffer the Vec holds exactly the concatenation of the
\* payloads passed to write, in call order, whatever set_color,
\* set_hyperlink and reset calls came between them; each of those calls
\* returned Ok(()) and each write returned the length of its payload.
C9_NoColorPassThrough ==
    bufTag = "NoColor" =>
        /\ bufData = Flatten(WritePayloads(bufOps))
        /\ \A i \in 1..Len(bufOps) :
              bufOps[i].ret = IF bufOps[i].op = "write"
                                 THEN <<"Ok", Len(bufOps[i].arg)>>
                                 ELSE <<"Ok">>

\* C9 witness: a no-color Buffer was written to, then styled with a color
\* spec, an open hyperlink and a reset, then written to again.
C9_Witness ==
    /\ bufTag = "NoColor"
    /\ Len(bufOps) = 5
    /\ bufOps[1].op = "write" /\ bufOps[1].arg = <<104, 105>>
    /\ bufOps[2].op = "set_color" /\ bufOps[2].arg.fg_color = <<"Green">>
    /\ bufOps[3].op = "set_hyperlink" /\ bufOps[3].arg # <<>>
    /\ bufOps[4].op = "reset"
    /\ bufOps[5].op = "write" /\ bufOps[5].arg = <<27, 91>>
    /\ bufData = <<104, 105, 27, 91>>

\* C10: a writer constructed with Auto attempts no color exactly when, at
\* construction, NO_COLOR was set (to any value, the empty one included), or
\* TERM was "dumb", or TERM was absent in the non-Windows build; in the
\* Windows build an absent TERM without NO_COLOR leaves color attempted.
C10_AutoPolicy ==
    (bw # <<>> /\ bw[1].choice = "Auto") =>
        /\ bw[1].attempt =
              ~(\/ bw[1].no_color # <<>>
                \/ bw[1].term = <<"dumb">>
                \/ (~windows /\ bw[1].term = <<>>))
        /\ (windows /\ bw[1].term = <<>> /\ bw[1].no_color = <<>>)
              => bw[1].attempt

\* C10 witness: Auto was resolved to no color under a usable TERM because
\* NO_COLOR was set, to the empty string.
C10_Witness ==
    /\ bw # <<>>
    /\ bw[1].choice = "Auto"
    /\ bw[1].term = <<"xterm">>
    /\ bw[1].no_color = <<"">>
    /\ ~bw[1].attempt

\* C11: a standard stream constructed while the policy resolved
\* attempt_color = true supports color; in particular one constructed with
\* Always does, whatever NO_COLOR, TERM and the console negotiation were.
C11_AttemptImpliesSupportsColor ==
    ss # <<>> =>
        /\ ss[1].attempt => supports_color(ss[1].variant)
        /\ ss[1].choice = "Always" => supports_color(ss[1].variant)

\* C12: every Buffer a BufferWriter returns is the ANSI variant exactly when
\* the writer resolved to color at construction (in the non-Windows build:
\* exactly when attempt_color was true then), whatever TERM and NO_COLOR are
\* at the time of the buffer() call; and no step changes the decision of a
\* constructed writer.
C12_DecisionCachedAtConstruction ==
    /\ [](bw # <<>> =>
            /\ \A i \in 1..Len(made) :
                  (made[i].variant = "Ansi") = bw[1].use_color
            /\ ~windows => (bw[1].use_color = bw[1].attempt))
    /\ [][bw # <<>> => bw' = bw]_vars

\* C12 witness: the writer resolved to color at construction, the
\* environment then changed so that the policy would now resolve to no
\* color, and two Buffers were created after the change.
C12_Witness ==
    /\ bw # <<>>
    /\ bw[1].choice = "Auto" /\ bw[1].use_color
    /\ Len(made) = 2
    /\ \A i \in 1..2 : made[i].variant = "Ansi" /\ ~made[i].now

\* C13: the variant of a writer is fixed at construction.  No call on a
\* Buffer (write, flush, set_color, set_hyperlink, reset, clear) changes
\* its variant and no call on a StandardStream or its lock changes the
\* stream's; supports_color() and supports_hyperlinks() answer after every
\* call what the variant answers; a StandardStreamLock has the variant of
\* the stream it was taken from.
C13_VariantFixed ==
    /\ [][bufTag' = bufTag]_vars
    /\ [][ss # <<>> => (ss' # <<>> /\ ss'[1].variant = ss[1].variant)]_vars
    /\ [](\A i \in 1..Len(bufOps) :
            /\ bufOps[i].supports_color = (bufTag = "Ansi")
            /\ bufOps[i].supports_hyperlinks = (bufTag = "Ansi"))
    /\ [](\A i \in 1..Len(ssOps) :
            /\ ssOps[i].supports_color = (ss[1].variant = "Ansi")
            /\ ssOps[i].supports_hyperlinks = (ss[1].variant = "Ansi"))
    /\ [](ssLock # <<>> => ssLock[1] = ss[1].variant)

\* C13 witness: an ANSI Buffer was written to, styled and then cleared.
C13_Witness ==
    /\ bufTag = "Ansi"
    /\ Len(bufOps) = 3
    /\ bufOps[1].op = "write" /\ bufOps[1].arg # <<>>
    /\ bufOps[2].op = "set_color"
    /\ bufOps[3].op = "clear" /\ bufOps[3].supports_color
    /\ bufData = <<>>

\* The steps thread t itself can take inside print.
ThreadStep(t) == Lock(t) \/ WriteSome(t) \/ WriteFail(t) \/ StoreReturn(t)

\* C14: taking the hold on the stream while a hold on it is alive fails
\* fast and never blocks: a thread that has reached the lock() of print
\* always has a step it can take (the error return), also while another
\* thread holds the stream.
C14_LockFailsFast ==
    \A t \in Threads :
        (pc[t] = "lock" /\ lockHolder # 0) => ENABLED ThreadStep(t)

\* C15: print releases the hold on the stream before it returns, on the Ok
\* path and on the error path of each write_all: the stream is held only by
\* a thread that is inside print past its lock(), a thread that is outside
\* print or waiting holds nothing, and once the stream is free a waiting
\* print can take it.
C15_HoldReleasedOnEveryExit ==
    /\ lockHolder # 0 => pc[lockHolder] \in {"sep", "nl", "buf", "store"}
    /\ \A t \in Threads :
          /\ pc[t] \in {"idle", "lock"} => lockHolder # t
          /\ (pc[t] = "lock" /\ \A u \in Threads : pc[u] \in {"idle", "lock"})
                => ENABLED Lock(t)

\* C15 witness: a print failed in a write_all, has returned, and another
\* thread's print, which was waiting, now holds the stream.
C15_Witness ==
    \E t \in Threads :
        /\ Len(calls) = 2
        /\ calls[1].result = "Err"
        /\ cur[t] = 2 /\ calls[1].thread # t
        /\ lockHolder = t
        /\ device # <<>> /\ device[1].call = 1 /\ device[Len(device)].call = 2

\* The bytes a call of the Ansi writer leaves in the sink when its j-th
\* write_all fails after n bytes: the earlier slices whole, then n bytes.
WroteUntilFault(c) ==
    Flatten(SubSeq(AnsiOpWrites(c.op, c.arg), 1, c.fault[1] - 1))
        \o SubSeq(AnsiOpWrites(c.op, c.arg)[c.fault[1]], 1, c.fault[2])

DigitOf(c) ==
    CHOOSE k \in 0..15 :
        c \in {SubSeq("0123456789abcdef", k + 1, k + 1),
               SubSeq("0123456789ABCDEF", k + 1, k + 1)}

\* s is a non-empty run of digits of the radix.
IsDigits(s, radix) ==
    /\ Len(s) > 0
    /\ \A i \in 1..Len(s) : \E k \in 1..radix :
          SubSeq(s, i, i) \in {SubSeq("0123456789abcdef", k, k),
                               SubSeq("0123456789ABCDEF", k, k)}

\* The number a run of digits denotes, by positional weight.
RECURSIVE DigitsNumber(_, _)
DigitsNumber(s, radix) ==
    IF Len(s) = 0 THEN 0
    ELSE DigitsNumber(SubSeq(s, 1, Len(s) - 1), radix) * radix
             + DigitOf(SubSeq(s, Len(s), Len(s)))

\* An integer literal: decimal digits, or hexadecimal digits after "0x".
IsIntegerLiteral(s) ==
    \/ IsDigits(s, 10)
    \/ Len(s) > 2 /\ SubSeq(s, 1, 2) = "0x" /\ IsDigits(SubSeq(s, 3, Len(s)), 16)

LiteralValue(s) ==
    IF IsDigits(s, 10) THEN DigitsNumber(s, 10)
    ELSE DigitsNumber(SubSeq(s, 3, Len(s)), 16)

HasComma(s) == \E i \in 1..Len(s) : SubSeq(s, i, i) = ","

\* C17: Color parsing of a comma-free integer literal yields Ansi256(n) when
\* its value n is at most 255 and fails as an invalid palette index, not as
\* an invalid name, when it is larger.
C17_LiteralIsPaletteIndexOrIndexError ==
    (pout # <<>> /\ pout[1] = "Color" /\ IsIntegerLiteral(pin)) =>
        IF LiteralValue(pin) <= 255
            THEN pout[2] = <<"Ok", <<"Ansi256", LiteralValue(pin)>>>>
            ELSE /\ pout[2][1] = "Err"
                 /\ pout[2][2].kind = "InvalidAnsi256"

\* The positions of the commas of s, and the position of its k-th comma.
Commas(s) == {i \in 1..Len(s) : SubSeq(s, i, i) = ","}

Comma(s, k) ==
    CHOOSE i \in Commas(s) : Cardinality({j \in Commas(s) : j < i}) = k - 1

\* The k-th comma-separated field of s, k in 1..Cardinality(Commas(s)) + 1.
Field(s, k) ==
    SubSeq(s,
           IF k = 1 THEN 1 ELSE Comma(s, k - 1) + 1,
           IF k = Cardinality(Commas(s)) + 1 THEN Len(s) ELSE Comma(s, k) - 1)

\* A field the number parser accepts: an integer literal within 0-255 that
\* may carry one '+' in front of its digits (after the 0x of a hex literal).
Unsigned(s) == IF Len(s) > 0 /\ SubSeq(s, 1, 1) = "+" THEN SubSeq(s, 2, Len(s)) ELSE s

IsSignedLiteral(s) ==
    IF Len(s) >= 2 /\ SubSeq(s, 1, 2) = "0x"
        THEN IsDigits(Unsigned(SubSeq(s, 3, Len(s))), 16)
        ELSE IsDigits(Unsigned(s), 10)

SignedValue(s) ==
    IF Len(s) >= 2 /\ SubSeq(s, 1, 2) = "0x"
        THEN DigitsNumber(Unsigned(SubSeq(s, 3, Len(s))), 16)
        ELSE DigitsNumber(Unsigned(s), 10)

\* C18 as stated: a string with a comma parses to Rgb(r, g, b) exactly when
\* it has three fields that are integer literals (decimal digits, or hex
\* digits after 0x) within 0-255; otherwise it fails as an invalid RGB
\* triple and the error carries the whole input.
C18_RgbIffThreeLiterals ==
    (pout # <<>> /\ pout[1] = "Color" /\ HasComma(pin)) =>
        IF /\ Cardinality(Commas(pin)) = 2
           /\ \A k \in 1..3 : /\ IsIntegerLiteral(Field(pin, k))
                              /\ LiteralValue(Field(pin, k)) <= 255
            THEN pout[2] = <<"Ok", <<"Rgb", LiteralValue(Field(pin, 1)),
                                     LiteralValue(Field(pin, 2)),
                                     LiteralValue(Field(pin, 3))>>>>
            ELSE pout[2] = <<"Err", [kind |-> "InvalidRgb", given |-> pin]>>

\* C18 amended: a string with a comma parses to Rgb(r, g, b) exactly when it
\* has three fields that are each an integer literal within 0-255, where a
\* literal may carry one '+' in front of its digits; every other string with
\* a comma fails as an invalid RGB triple and the error carries the whole
\* input.
C18_RgbIffThreeSignedLiterals ==
    (pout # <<>> /\ pout[1] = "Color" /\ HasComma(pin)) =>
        IF /\ Cardinality(Commas(pin)) = 2
           /\ \A k \in 1..3 : /\ IsSignedLiteral(Field(pin, k))
                              /\ SignedValue(Field(pin, k)) <= 255
            THEN pout[2] = <<"Ok", <<"Rgb", SignedValue(Field(pin, 1)),
                                     SignedValue(Field(pin, 2)),
                                     SignedValue(Field(pin, 3))>>>>
            ELSE pout[2] = <<"Err", [kind |-> "InvalidRgb", given |-> pin]>>

\* C18 witness: a triple whose first field carries a sign was parsed to Rgb.
C18_Witness ==
    /\ pin = "+1,1,1"
    /\ pout = <<"Color", <<"Ok", <<"Rgb", 1, 1, 1>>>>>>

\* C19: for every string c that Color parsing accepts, the StyleSpec string
\* "fg:" + c parses to a spec whose foreground is the Color parsed from c,
\* and "bg:" + c to a spec whose background is that Color.
C19_PrefixedColorRoundTrip ==
    (pout # <<>> /\ pout[1] = "ColorSpec") =>
        /\ (/\ strip_prefix(pin, "fg:") # <<>>
            /\ Color_from_str(strip_prefix(pin, "fg:")[1])[1] = "Ok")
              => /\ pout[2][1] = "Ok"
                 /\ pout[2][2].fg_color =
                        Color_from_str(strip_prefix(pin, "fg:")[1])[2]
        /\ (/\ strip_prefix(pin, "bg:") # <<>>
            /\ Color_from_str(strip_prefix(pin, "bg:")[1])[1] = "Ok")
              => /\ pout[2][1] = "Ok"
                 /\ pout[2][2].bg_color =
                        Color_from_str(strip_prefix(pin, "bg:")[1])[2]

\* The tokens of a StyleSpec string: its trimmed, non-empty fields, by field
\* number.
Token(s, k) == trim(Field(s, k))

TokenIndexes(s) ==
    {k \in 1..(Cardinality(Commas(s)) + 1) : Len(Token(s, k)) > 0}

FlagWords ==
    {"bold", "dimmed", "underline", "italic", "intense", "strikethrough"}

IsBgToken(t) == strip_prefix(t, "bg:") # <<>>

IsResetToken(t) == t \in {"reset", "noreset"}

\* A foreground token: fg:<color>, or a token that is no other kind.
IsFgToken(t) == ~IsBgToken(t) /\ ~IsResetToken(t) /\ t \notin FlagWords

\* The color a foreground or background token names.
TokenColor(t) ==
    IF strip_prefix(t, "fg:") # <<>> THEN Color_from_str(strip_prefix(t, "fg:")[1])[2]
    ELSE IF IsBgToken(t) THEN Color_from_str(strip_prefix(t, "bg:")[1])[2]
    ELSE Color_from_str(t)[2]

LastOf(S) == CHOOSE k \in S : \A j \in S : j <= k

\* C20: a successful StyleSpec parse is the default spec changed by its
\* tokens: the foreground is that of the last foreground token (none if
\* there is none), likewise the background; reset is false exactly when the
\* last of the reset/noreset tokens is noreset; a style flag is true exactly
\* when its token occurs; and "fg:blue,bold,bg:0x0A" gives fg = Blue, bold,
\* bg = Ansi256(10) and nothing else.
C20_TokensFoldLeftToRight ==
    (pout # <<>> /\ pout[1] = "ColorSpec" /\ pout[2][1] = "Ok") =>
        LET r == pout[2][2]
            K == TokenIndexes(pin)
            fgs == {k \in K : IsFgToken(Token(pin, k))}
            bgs == {k \in K : IsBgToken(Token(pin, k))}
            rs == {k \in K : IsResetToken(Token(pin, k))}
            has(word) == \E k \in K : Token(pin, k) = word
        IN  /\ r.fg_color = IF fgs = {} THEN NoneColor
                            ELSE TokenColor(Token(pin, LastOf(fgs)))
            /\ r.bg_color = IF bgs = {} THEN NoneColor
                            ELSE TokenColor(Token(pin, LastOf(bgs)))
            /\ r.reset = (rs = {} \/ Token(pin, LastOf(rs)) = "reset")
            /\ r.bold = has("bold")
            /\ r.dimmed = has("dimmed")
            /\ r.underline = has("underline")
            /\ r.italic = has("italic")
            /\ r.intense = has("intense")
            /\ r.strikethrough = has("strikethrough")
            /\ pin = "fg:blue,bold,bg:0x0A" =>
                  r = [DefaultSpec EXCEPT !.fg_color = <<"Blue">>,
                                          !.bold = TRUE,
                                          !.bg_color = <<"Ansi256", 10>>]

\* C20 witness: of two foreground tokens the later one won, and noreset
\* cleared reset.
C20_Witness ==
    /\ pin = "fg:blue,noreset,cyan"
    /\ pout = <<"ColorSpec",
                <<"Ok", [DefaultSpec EXCEPT !.fg_color = <<"Cyan">>,
                                            !.reset = FALSE]>>>>

\* The color string a token carries, for tokens that are not keywords.
TokenColorString(t) ==
    IF strip_prefix(t, "fg:") # <<>> THEN strip_prefix(t, "fg:")[1]
    ELSE IF strip_prefix(t, "bg:") # <<>> THEN strip_prefix(t, "bg:")[1]
    ELSE t

\* The tokens of s whose color string Color parsing rejects.
BadTokens(s) ==
    {k \in TokenIndexes(s) :
        /\ ~IsResetToken(Token(s, k))
        /\ Token(s, k) \notin FlagWords
        /\ Color_from_str(TokenColorString(Token(s, k)))[1] = "Err"}

\* C21: StyleSpec parsing fails exactly when some token that is no keyword
\* carries a color string that Color parsing rejects; the error is then
\* InvalidColor around the Color error of the leftmost such token (same
\* classification, same text), and the result holds no spec.
C21_FailsIffBadColorToken ==
    (pout # <<>> /\ pout[1] = "ColorSpec") =>
        IF BadTokens(pin) = {}
            THEN pout[2][1] = "Ok"
            ELSE LET k == CHOOSE k \in BadTokens(pin) :
                              \A j \in BadTokens(pin) : k <= j
                     t == TokenColorString(Token(pin, k))
                 IN  /\ pout[2][1] = "Err"
                     /\ Len(pout[2]) = 2
                     /\ pout[2][2][1] = "InvalidColor"
                     /\ pout[2][2][2] = Color_from_str(t)[2]
                     /\ pout[2][2][2].given = t

\* C21 witness: the second of three tokens is rejected although the third
\* is bad as well; the error names the second.
C21_Witness ==
    /\ pin = "bold,fg:nocolor,Bold"
    /\ pout = <<"ColorSpec",
                <<"Err", <<"InvalidColor",
                           [kind |-> "InvalidName", given |-> "nocolor"]>>>>>>

\* C22: when parsing a ColorChoice fails, invalid_choice() is the input
\* string as the caller gave it, letter case included.
C22_ErrorCarriesInputVerbatim ==
    (pout # <<>> /\ pout[1] = "ColorChoice" /\ pout[2][1] = "Err") =>
        pout[2][2].unknown_choice = pin

\* C23: ColorChoice parsing succeeds only for the strings "always",
\* "always-ansi", "never" and "auto", each giving its own variant; every
\* other string, other letter-case spellings included, is an error.
C23_OnlyLowercaseNamesParse ==
    (pout # <<>> /\ pout[1] = "ColorChoice") =>
        CASE pin = "always" -> pout[2] = <<"Ok", "Always">>
          [] pin = "always-ansi" -> pout[2] = <<"Ok", "AlwaysAnsi">>
          [] pin = "never" -> pout[2] = <<"Ok", "Never">>
          [] pin = "auto" -> pout[2] = <<"Ok", "Auto">>
          [] OTHER -> pout[2][1] = "Err"

\* The eight color names and their variants.
NameTable ==
    {<<"black", "Black">>, <<"blue", "Blue">>, <<"green", "Green">>,
     <<"red", "Red">>, <<"cyan", "Cyan">>, <<"magenta", "Magenta">>,
     <<"yellow", "Yellow">>, <<"white", "White">>}

\* a and b are the same letters, whatever their case.
SameLetters(a, b) ==
    /\ Len(a) = Len(b)
    /\ \A i \in 1..Len(a) : \E k \in 1..26 :
          /\ SubSeq(a, i, i) \in {SubSeq("abcdefghijklmnopqrstuvwxyz", k, k),
                                  SubSeq("ABCDEFGHIJKLMNOPQRSTUVWXYZ", k, k)}
          /\ SubSeq(b, i, i) \in {SubSeq("abcdefghijklmnopqrstuvwxyz", k, k),
                                  SubSeq("ABCDEFGHIJKLMNOPQRSTUVWXYZ", k, k)}

\* C24: every letter-case spelling of one of the eight color names parses
\* to the variant of that name, and spellings of different names parse to
\* different variants.
C24_NamesAnyCase ==
    (pout # <<>> /\ pout[1] = "Color" /\ pin \in NameSpellings) =>
        /\ \E p \in NameTable :
              /\ SameLetters(pin, p[1])
              /\ pout[2] = <<"Ok", <<p[2]>>>>
        /\ \A other \in NameSpellings :
              Color_from_str(other) = pout[2] => SameLetters(other, pin)

\* C24 witness: a mixed-case spelling of magenta was parsed.
C24_Witness ==
    /\ pin = "mAgEnTa"
    /\ pout = <<"Color", <<"Ok", <<"Magenta">>>>>>

\* The bytes call c of the Ansi writer added to the sink.
Added(c) == SubSeq(c.after, Len(c.before) + 1, Len(c.after))

\* s has the bytes of w at positions p .. p + Len(w) - 1.
OccursAt(w, s, p) ==
    /\ p >= 1
    /\ p + Len(w) - 1 <= Len(s)
    /\ \A j \in 1..Len(w) : s[p + j - 1] = w[j]

\* What a terminal holds as the current hyperlink after the bytes s: the
\* URI of the last ESC ] 8 ; ; ... ESC \ sequence, <<>> when that sequence
\* is a close or there is none.
CurrentLink(s) ==
    LET starts == {p \in 1..Len(s) : OccursAt(<<27, 93, 56, 59, 59>>, s, p)}
    IN  IF starts = {} THEN <<>>
        ELSE LET p == CHOOSE p \in starts : \A q \in starts : q <= p
                 ends == {e \in (p + 5)..Len(s) : OccursAt(<<27, 92>>, s, e)}
                 e == CHOOSE e \in ends : \A f \in ends : e <= f
             IN  SubSeq(s, p + 5, e - 1)

\* C25: on the Ansi writer a set_hyperlink that meets no write error adds
\* exactly ESC ] 8 ; ; then the URI bytes as given (none for close) then
\* ESC \; reset and set_color add no ESC ] at all; and after a hyperlink
\* was opened, the terminal's current hyperlink is still that URI after any
\* run of reset and set_color calls.
C25_HyperlinkBytesAndLifetime ==
    \A i \in 1..Len(fcalls) :
        /\ (fcalls[i].op = "set_hyperlink" /\ fcalls[i].fault = <<>>) =>
              Added(fcalls[i]) =
                  <<27, 93, 56, 59, 59>>
                      \o (IF fcalls[i].arg = <<>> THEN <<>> ELSE fcalls[i].arg[1])
                      \o <<27, 92>>
        /\ fcalls[i].op \in {"reset", "set_color"} =>
              \A p \in 1..Len(Added(fcalls[i])) :
                  ~OccursAt(<<27, 93>>, Added(fcalls[i]), p)
        /\ (/\ fcalls[i].op = "set_hyperlink"
            /\ fcalls[i].fault = <<>>
            /\ fcalls[i].arg # <<>>) =>
              \A j \in i..Len(fcalls) :
                  (\A k \in (i + 1)..j : fcalls[k].op \in {"reset", "set_color"})
                      => CurrentLink(fcalls[j].after) = fcalls[i].arg[1]

\* C25 witness: a hyperlink with an escape byte in its URI was opened and a
\* reset followed; the link is still the current one.
C25_Witness ==
    /\ Len(fcalls) = 2
    /\ fcalls[1].op = "set_hyperlink" /\ fcalls[1].arg = <<<<32, 27>>>>
    /\ fcalls[1].fault = <<>>
    /\ fcalls[2].op = "reset" /\ fcalls[2].fault = <<>>
    /\ fsink = <<27, 93, 56, 59, 59, 32, 27, 27, 92, 27, 91, 48, 109>>
    /\ CurrentLink(fsink) = <<32, 27>>

\* C26: for every ColorSpec built by setters and clear, is_none() is true
\* exactly when there is no foreground, no background and none of bold,
\* dimmed, italic, underline, strikethrough and intense, whatever reset is;
\* a clear() step leaves a spec for which is_none() is true and does not
\* change reset.
C26_IsNoneAndClear ==
    /\ [](is_none(cspec) <=>
            /\ {cspec.fg_color, cspec.bg_color} = {NoneColor}
            /\ \A f \in {"bold", "dimmed", "italic", "underline",
                         "strikethrough", "intense"} : cspec[f] = FALSE)
    /\ [](cleared => is_none(cspec))
    /\ [][cleared' =>
            /\ is_none(cspec')
            /\ cspec'.reset = cspec.reset]_vars

\* C26 witness: clear() was the last change of a spec whose reset flag is
\* false.
C26_Witness ==
    /\ cleared
    /\ ~cspec.reset
    /\ is_none(cspec)

\* C27: the printed flag of a BufferWriter is true exactly when some print
\* of a non-empty buffer has returned Ok; it starts false, a step in which
\* a print returns an error leaves it as it was, and no step takes it from
\* true to false.
C27_PrintedIffSomePrintSucceeded ==
    /\ [](printed <=> \E k \in 1..Len(calls) :
                          /\ calls[k].result = "Ok"
                          /\ calls[k].content # <<>>)
    /\ [][/\ printed => printed'
          /\ (\E k \in 1..Len(calls) :
                 calls[k].result # "Err" /\ calls'[k].result = "Err")
                => printed' = printed]_vars

\* C27 witness: one print failed after part of its buffer reached the
\* device, a print of an empty buffer returned Ok, and the flag is false.
C27_Witness ==
    /\ ~printed
    /\ \E k \in 1..Len(calls) :
          /\ calls[k].result = "Err"
          /\ Len(CallEntries(k)) >= 1
    /\ \E k \in 1..Len(calls) :
          /\ calls[k].result = "Ok"
          /\ calls[k].content = <<>>

\* C28: for a spec whose intense flag is false, the bytes Ansi::set_color
\* writes are the bytes ansi_spec produces for the same spec, for named,
\* Ansi256 and Rgb colors as foreground and as background and every
\* component value 0..255.
C28_EncodersAgreeWithoutIntense ==
    (dispDone /\ sinkDone /\ ~cspec.intense) => sink = disp

\* C28 witness: both encoders ran on a background Rgb(255, 7, 0) and left
\* the same bytes.
C28_Witness ==
    /\ dispDone /\ sinkDone /\ ~cspec.intense
    /\ cspec.bg_color = <<"Rgb", 255, 7, 0>>
    /\ disp = <<27, 91, 52, 56, 59, 50, 59, 50, 53, 53, 59, 55, 59, 48, 109>>
    /\ sink = disp

\* C29: while Ansi::write_color formats an Ansi256 or Rgb color, the
\* prefix-length assertion holds and every index written into the 19-byte
\* work buffer is within 0..18, for every component value in every field;
\* the slice handed to write_all lies in the buffer, and for 255, 255, 255
\* it is the whole buffer.
C29_WorkBufferIndexesInRange ==
    (sinkDone /\ ~IsNamed(OneColor)) =>
        LET st == write_custom(OneColorIsFg, OneColor)
        IN  /\ ~st.panic
            /\ st.hi \in 0..18
            /\ st.i = st.hi
            /\ Len(sink) = st.i + 1
            /\ Len(sink) <= 19
            /\ OneColor = <<"Rgb", 255, 255, 255>> =>
                  /\ st.hi = 18
                  /\ Len(sink) = 19

\* C29 witness: Rgb(255, 255, 255) was written as a background and its
\* code is 19 bytes long.
C29_Witness ==
    /\ sinkDone
    /\ cspec.bg_color = <<"Rgb", 255, 255, 255>>
    /\ sink = <<27, 91, 52, 56, 59, 50, 59, 50, 53, 53, 59, 50, 53, 53, 59,
                50, 53, 53, 109>>

\* The slices among StringPayloads that are valid UTF-8 on their own.
ValidPayloads == {<<>>, <<104, 105>>, <<195, 169>>, <<226, 130, 172>>}

\* The slices of the first n calls that write accepted, one after another.
RECURSIVE Accepted(_)
Accepted(n) ==
    IF n = 0 THEN <<>>
    ELSE Accepted(n - 1)
             \o (IF swOps[n].op = "write" /\ swOps[n].ret[1] = "Ok"
                     THEN swOps[n].arg ELSE <<>>)

\* C30: on a StringWriter or TermString, a write of a slice that is valid
\* UTF-8 on its own appends the whole slice and returns its length; a write
\* of any other slice returns an InvalidData error and leaves the string as
\* it was; flush and the style operations return Ok and leave it as it was;
\* so the string is always the accepted slices in order.
C30_StringWriteAllOrNothing ==
    /\ \A i \in 1..Len(swOps) :
          IF swOps[i].op = "write"
              THEN IF swOps[i].arg \in ValidPayloads
                       THEN /\ swOps[i].ret = <<"Ok", Len(swOps[i].arg)>>
                            /\ swOps[i].after = swOps[i].before \o swOps[i].arg
                       ELSE /\ swOps[i].ret = <<"Err", "InvalidData">>
                            /\ swOps[i].after = swOps[i].before
              ELSE /\ swOps[i].ret = <<"Ok">>
                   /\ swOps[i].after = swOps[i].before
    /\ \A i \in 1..Len(swOps) : swOps[i].after = Accepted(i)
    /\ swInner = Accepted(Len(swOps))

\* C30 witness: U+00E9 was written whole, a style was set, and then the
\* first byte of U+00E9 alone was refused.
C30_Witness ==
    /\ swKind = "TermString"
    /\ Len(swOps) = 3
    /\ swOps[1].arg = <<195, 169>> /\ swOps[1].ret = <<"Ok", 2>>
    /\ swOps[2].op = "set_color"
    /\ swOps[3].arg = <<195>> /\ swOps[3].ret = <<"Err", "InvalidData">>
    /\ swInner = <<195, 169>>

====
